---- MODULE Spec2Model ----
(***************************************************************************)
(* Campaign dispatch engine of HR_Cold_Email: the pooled EmailService      *)
(* (transporter cache keyed by sender email), and                          *)
(* CampaignController.sendCampaign, which drives it once per recipient.    *)
(*                                                                         *)
(* Time is Date.now() in milliseconds.  A transporter is identified by the *)
(* order in which nodemailer.createTransport returned it.  An error        *)
(* message is a sequence of text fragments, so that concatenation          *)
(* (template strings) and String.includes can be computed.                 *)
(***************************************************************************)
EXTENDS Integers, Sequences, FiniteSets, TLC

\* ---------------------------------------------------------------- bounds
MaxRecipients == 3
MaxTransporters == 3
MaxTicks == 2
MaxTemplateLen == 2
MaxTokens == 3
MaxEvents == 2
MaxPieces == 3
MaxStatRecords == 40
MaxLogins == 6
MaxPlainLen == 2
MaxCredCalls == 3

\* Callers of EmailService.sendEmail that may be in flight at the same time.
Callers == {1, 2}
\* Sender accounts (cache keys).
SenderEmails == {"s1@gmail.com", "s2@gmail.com"}

None == [none |-> TRUE]
\* An absent (undefined) string or number of a request body.
NoString == ""
NoNumber == 0 - 1
\* sendEmail / verify / sendMail resolved without an error.
Ok == [ok |-> TRUE]

\* ------------------------------------------------------------- constants
\* CACHE_TTL = 30 * 60 * 1000
CACHE_TTL == 30 * 60 * 1000
\* The clock advances in steps of half the TTL, so that an entry can be
\* observed strictly inside the TTL window and exactly at its end.
TickMs == CACHE_TTL \div 2

VARIABLES
    now,               \* Date.now()
    transporterCache,  \* EmailService.transporterCache: set of entries [key, transporter, lastUsed, verified]
    transporters,      \* every transporter createTransport has returned: [owner, open, verified]
    cpc,               \* per caller: position inside sendEmail
    cfg,               \* per caller: config.email of the call
    ctr,               \* per caller: the transporter getTransporter is working with
    cnow,              \* per caller: `now` captured at the top of getTransporter
    cfrom,             \* per caller: whether getTransporter answered from the cache
    cret,              \* per caller: how sendEmail ended (Ok or the AppError thrown)
    credentials,       \* the user's rows of the emailCredential table: [id, email, isDefault]
    pc,                \* position of the sendCampaign request
    req,               \* req.body
    credLookups,       \* number of credentialService.getCredentials calls made
    found,             \* id of the row chosen by credentials.find(...)
    credential,        \* the credential returned by getCredentialById
    i,                 \* loop index (0-based)
    results,           \* results[]
    waits,             \* the setTimeout waits awaited so far: [after, ms]
    attempts,          \* the sendEmail calls made so far: [to, from, i, fresh]
    response,          \* what the request answered: res.json(...) or the error given to next()
    cancelled,         \* the client has aborted the request (req 'close')
    trackingFile,      \* logs/email_tracking.jsonl: one TrackingRecord per line
    minted,            \* number of tokens crypto.randomBytes has produced
    tret,              \* what the last tracking call returned or threw
    opens,             \* per tracking token: recordEmailOpen calls that returned true
    clicks,            \* per click token: recordLinkClick calls that returned a url
    registered,        \* the tracking tokens createTrackingRecord has returned
    tmpl,              \* the template and the recipient of a personalization
    rcpt,
    rendered,          \* the subject sendCampaign hands to sendEmail for them
    tres,              \* what a tracking route answered: [status, body, location]
    apiClient,         \* the frontend ApiClient and the request it is making
    crypto,            \* one use of utils/encryption: the text, its encryption, what decrypt was given and answered
    auth,              \* the login route: the hits authLimiter has counted per IP, the logins answered
    credSvc            \* the createCredential and deleteCredential calls in progress, per request

poolVars == <<now, transporterCache, transporters>>
callVars == <<cpc, cfg, ctr, cnow, cfrom, cret>>
loopVars == <<i, results, waits, response>>
runVars == <<pc, req, credLookups, found, credential, i, results, waits, attempts, response>>
vars == <<now, transporterCache, transporters, cpc, cfg, ctr, cnow, cfrom, cret,
          credentials, pc, req, credLookups, found, credential, i, results, waits,
          attempts, response, cancelled, trackingFile, minted, tret, opens, clicks, registered,
          tmpl, rcpt, rendered, tres, apiClient, auth, crypto, credSvc>>
trackVars == <<trackingFile, minted, tret, opens, clicks, registered>>
renderVars == <<tmpl, rcpt, rendered>>
\* The state of the parts of the application beside the campaign run, the
\* tracking store and the personalization.
sideVars == <<tres, apiClient, auth, crypto, credSvc>>
\* The campaign run, the tracking store and the personalization.
coreVars == <<poolVars, callVars, credentials, runVars, cancelled, trackVars, renderVars>>

\* ------------------------------------------------------------ errors
\* new AppError(message, statusCode): its `code` is an ErrorCode, never a
\* nodemailer code such as 'EAUTH'.
AppError(message, statusCode) ==
    [isAppError |-> TRUE, statusCode |-> statusCode,
     code |-> IF statusCode = 400 THEN "VAL_002"
              ELSE IF statusCode = 401 THEN "AUTH_004"
              ELSE IF statusCode = 404 THEN "RES_001" ELSE "SRV_001",
     message |-> message]

\* An error raised by nodemailer (transporter.verify / transporter.sendMail).
MailError(code, message) ==
    [isAppError |-> FALSE, statusCode |-> 0, code |-> code, message |-> message]

\* error.message?.includes(text)
Includes(message, text) == \E k \in 1..Len(message) : message[k] = text

\* The catch block of sendEmail: the error thrown to the caller.
Classify(error) ==
    IF error.code = "EAUTH" \/ Includes(error.message, "Invalid login")
    THEN AppError(<<"Gmail authentication failed. Please check your App Password.">>, 401)
    ELSE IF error.code = "ESOCKET" \/ error.code = "ECONNECTION"
    THEN AppError(<<"Unable to connect to Gmail. Please check your internet connection.">>, 503)
    ELSE IF error.isAppError THEN error
    ELSE AppError(<<"Email sending failed: ">> \o error.message, 500)

\* ------------------------------------------------------------ the cache
\* Map.get
CacheGet(cache, key) ==
    IF \E e \in cache : e.key = key
    THEN CHOOSE e \in cache : e.key = key
    ELSE None

\* Map.set
CacheSet(cache, entry) == {e \in cache : e.key # entry.key} \cup {entry}

\* Map.delete
CacheDelete(cache, key) == {e \in cache : e.key # key}

\* Mutant of CacheValid: the age test is turned round.
CacheValidMut(cached, t) ==
    cached # None /\ cached.verified /\ (t - cached.lastUsed) > CACHE_TTL

\* cached && cached.verified && (now - cached.lastUsed) < this.CACHE_TTL
CacheValid(cached, t) ==
    cached # None /\ cached.verified /\ (t - cached.lastUsed) < CACHE_TTL

\* transporter.close()
Close(trs, id) == [trs EXCEPT ![id].open = FALSE]

\* nodemailer.createTransport({pool: true, auth: {user: email, ...}})
CreateTransport(trs, email) ==
    Append(trs, [owner |-> email, open |-> TRUE, verified |-> FALSE])

\* --------------------------------------------------- EmailService.sendEmail
\* getTransporter up to its first await: the cache lookup, the cached answer,
\* or closing the stale entry and creating the transporter whose verify()
\* is then awaited.
GetTransporter(c, email) ==
    LET cached == CacheGet(transporterCache, email) IN
    /\ cfg' = [cfg EXCEPT ![c] = email]
    /\ cret' = [cret EXCEPT ![c] = None]
    /\ IF CacheValid(cached, now)
       THEN /\ transporterCache' = CacheSet(transporterCache, [cached EXCEPT !.lastUsed = now])
            /\ transporters' = transporters
            /\ cnow' = cnow
            /\ ctr' = [ctr EXCEPT ![c] = cached.transporter]
            /\ cfrom' = [cfrom EXCEPT ![c] = "cache"]
            /\ cpc' = [cpc EXCEPT ![c] = "sendMail"]
       ELSE /\ Len(transporters) < MaxTransporters
            /\ transporterCache' = IF cached # None
                                   THEN CacheDelete(transporterCache, email)
                                   ELSE transporterCache
            /\ transporters' = CreateTransport(
                                  IF cached # None
                                  THEN Close(transporters, cached.transporter)
                                  ELSE transporters, email)
            /\ ctr' = [ctr EXCEPT ![c] = Len(transporters) + 1]
            /\ cnow' = [cnow EXCEPT ![c] = now]
            /\ cfrom' = [cfrom EXCEPT ![c] = "new"]
            /\ cpc' = [cpc EXCEPT ![c] = "verify"]

\* sendEmail has ended: its locals are gone.
ReleaseLocals(c) ==
    /\ cfg' = [cfg EXCEPT ![c] = NoString]
    /\ ctr' = [ctr EXCEPT ![c] = 0]
    /\ cnow' = [cnow EXCEPT ![c] = 0]
    /\ cfrom' = [cfrom EXCEPT ![c] = "none"]

\* The invalidation in sendEmail's catch block.
InvalidateOnError(cache, error, email) ==
    IF error.code = "EAUTH" THEN CacheDelete(cache, email) ELSE cache

\* await transporter.verify() settles with `outcome`; on success the rest of
\* getTransporter caches the transporter, on failure getTransporter throws
\* AppError 401, which sendEmail's catch block classifies and rethrows.
VerifySettled(c, outcome) ==
    /\ cpc[c] = "verify"
    /\ IF outcome = Ok
       THEN /\ transporters' = [transporters EXCEPT ![ctr[c]].verified = TRUE]
            /\ transporterCache' = CacheSet(transporterCache,
                    [key |-> cfg[c], transporter |-> ctr[c],
                     lastUsed |-> cnow[c], verified |-> TRUE])
            /\ cpc' = [cpc EXCEPT ![c] = "sendMail"]
            /\ UNCHANGED <<cret, cfg, ctr, cnow, cfrom>>
       ELSE LET thrown == AppError(<<"SMTP authentication failed: ">> \o outcome.message, 401) IN
            /\ transporters' = transporters
            /\ transporterCache' = InvalidateOnError(transporterCache, thrown, cfg[c])
            /\ cpc' = [cpc EXCEPT ![c] = "returned"]
            /\ cret' = [cret EXCEPT ![c] = Classify(thrown)]
            /\ ReleaseLocals(c)
    /\ now' = now

\* await transporter.sendMail(...) settles with `outcome`.  A transporter
\* that has been closed delivers nothing.
SendMailSettled(c, outcome) ==
    /\ cpc[c] = "sendMail"
    /\ outcome = Ok => transporters[ctr[c]].open
    /\ IF outcome = Ok
       THEN /\ transporterCache' = transporterCache
            /\ cret' = [cret EXCEPT ![c] = Ok]
       ELSE /\ transporterCache' = InvalidateOnError(transporterCache, outcome, cfg[c])
            /\ cret' = [cret EXCEPT ![c] = Classify(outcome)]
    /\ cpc' = [cpc EXCEPT ![c] = "returned"]
    /\ ReleaseLocals(c)
    /\ UNCHANGED <<now, transporters>>

RECURSIVE CloseAll(_, _)
CloseAll(trs, entries) ==
    IF entries = {} THEN trs
    ELSE LET e == CHOOSE x \in entries : TRUE
         IN CloseAll(Close(trs, e.transporter), entries \ {e})

\* clearCache(): close every cached transporter, then clear the map.
ClearCache ==
    /\ transporterCache # {}
    /\ transporters' = CloseAll(transporters, transporterCache)
    /\ transporterCache' = {}
    /\ UNCHANGED <<now, callVars, credentials, runVars>>
    /\ UNCHANGED <<cancelled, trackVars, renderVars, sideVars>>

\* Time passes.
Tick ==
    /\ now < MaxTicks * TickMs
    /\ now' = now + TickMs
    /\ UNCHANGED <<transporterCache, transporters, callVars, credentials, runVars>>
    /\ UNCHANGED <<cancelled, trackVars, renderVars, sideVars>>

\* ------------------------------------------- a sendEmail call of another request
\* The caller the sendCampaign request of this model uses.
RunCaller == 1

CallSendEmail(c, email) ==
    /\ cpc[c] \in {"idle", "returned"}
    /\ GetTransporter(c, email)
    /\ UNCHANGED <<now, credentials, runVars>>
    /\ UNCHANGED <<cancelled, trackVars, renderVars, sideVars>>

CallVerifySettled(c, outcome) ==
    /\ VerifySettled(c, outcome)
    /\ UNCHANGED <<credentials, runVars>>
    /\ UNCHANGED <<cancelled, trackVars, renderVars, sideVars>>

CallSendMailSettled(c, outcome) ==
    /\ SendMailSettled(c, outcome)
    /\ UNCHANGED <<credentials, runVars>>
    /\ UNCHANGED <<cancelled, trackVars, renderVars, sideVars>>

\* ------------------------------------------------ credentialService
\* deleteCredential(userId, credentialId).  sendCampaign does not read the
\* table after getCredentialById, so only the deletions up to then are modelled.
DeleteCredential(id) ==
    /\ pc \in {"idle", "route", "controller", "getCredentials", "getCredentialById"}
    /\ \E row \in credentials : row.id = id
    /\ credentials' = {row \in credentials : row.id # id}
    /\ UNCHANGED <<poolVars, callVars, runVars>>
    /\ UNCHANGED <<cancelled, trackVars, renderVars, sideVars>>

\* Mutant of FindCredential: credentialEmail is ignored, the default row is taken.
FindCredentialMut(rows, credentialEmail) ==
    LET matching == {row \in rows : row.isDefault}
    IN IF matching = {} THEN None
       ELSE CHOOSE row \in matching : \A other \in matching : other.id <= row.id

\* credentials.find(pred) over the rows in createdAt-descending order
\* (ids are handed out in creation order).
FindCredential(rows, credentialEmail) ==
    LET matching == IF credentialEmail # NoString
                    THEN {row \in rows : row.email = credentialEmail}
                    ELSE {row \in rows : row.isDefault}
    IN IF matching = {} THEN None
       ELSE CHOOSE row \in matching : \A other \in matching : other.id <= row.id

\* ------------------------------------------ CampaignController.sendCampaign
\* batchSize = 10, batchDelay = 60 (destructuring defaults; the same defaults
\* are in sendCampaignSchema)
DefaultBatchSize == 10
DefaultBatchDelay == 60
StaggerMs == 300

\* The recipients field of a request with n recipients (distinct addresses,
\* named by their place in the address book).
RecipientList(n) == [defined |-> TRUE, list |-> [k \in 1..n |-> k]]
\* A body without the recipients field.
NoRecipients == [defined |-> FALSE, list |-> <<>>]

Subjects == {"", "Hello {fullName}"}
Bodies == {"", "<p>Hi</p>"}
Pacings == { [batchSize |-> NoNumber, batchDelay |-> NoNumber],
             [batchSize |-> 1, batchDelay |-> 2],
             [batchSize |-> 2, batchDelay |-> 1] }

\* Request bodies.
Requests ==
    { [credentialEmail |-> ce, subject |-> su, body |-> bo, recipients |-> rc,
       batchSize |-> p.batchSize, batchDelay |-> p.batchDelay] :
         ce \in {NoString, "s1@gmail.com"}, su \in Subjects, bo \in Bodies,
         rc \in {NoRecipients} \cup {RecipientList(n) : n \in 0..MaxRecipients},
         p \in Pacings }

\* sendCampaignSchema.parse succeeds
SchemaAccepts(body) ==
    /\ body.credentialEmail # NoString
    /\ body.subject # ""
    /\ body.body # ""
    /\ body.recipients.defined
    /\ Len(body.recipients.list) >= 1
    /\ Len(body.recipients.list) <= 500
    /\ body.batchSize # NoNumber => (body.batchSize >= 1 /\ body.batchSize <= 50)
    /\ body.batchDelay # NoNumber => (body.batchDelay >= 0 /\ body.batchDelay <= 300)

\* The value of a destructured field with a default.
WithDefault(value, default) == IF value = NoNumber THEN default ELSE value

\* The request arrives; POST /send runs validate(sendCampaignSchema) first,
\* a direct call of the controller method does not.
Receive(body, viaRoute) ==
    /\ pc = "idle"
    /\ req' = body
    /\ pc' = IF viaRoute THEN "route" ELSE "controller"
    /\ UNCHANGED <<poolVars, callVars, credentials, credLookups, found, credential,
                   loopVars, attempts>>
    /\ UNCHANGED <<cancelled, trackVars, renderVars, sideVars>>

\* validate(sendCampaignSchema)
RouteValidate ==
    /\ pc = "route"
    /\ IF SchemaAccepts(req)
       THEN /\ pc' = "controller"
            /\ req' = [req EXCEPT !.batchSize = WithDefault(@, DefaultBatchSize),
                                  !.batchDelay = WithDefault(@, DefaultBatchDelay)]
            /\ response' = response
       ELSE /\ pc' = "error"
            /\ req' = req
            /\ response' = AppError(<<"Validation failed">>, 400)
    /\ UNCHANGED <<poolVars, callVars, credentials, credLookups, found, credential,
                   i, results, waits, attempts>>
    /\ UNCHANGED <<cancelled, trackVars, renderVars, sideVars>>

\* Mutant of PreconditionError: the subject/body test is missing.
PreconditionErrorMut(body) ==
    IF ~body.recipients.defined \/ Len(body.recipients.list) = 0
    THEN AppError(<<"No recipients provided">>, 400)
    ELSE None

\* !recipients || recipients.length === 0 ; !subject || !body
PreconditionError(body) ==
    IF ~body.recipients.defined \/ Len(body.recipients.list) = 0
    THEN AppError(<<"No recipients provided">>, 400)
    ELSE IF body.subject = "" \/ body.body = ""
    THEN AppError(<<"Subject and body are required">>, 400)
    ELSE None

\* sendCampaign up to `await credentialService.getCredentials`
ControllerValidate ==
    /\ pc = "controller"
    /\ IF PreconditionError(req) # None
       THEN /\ pc' = "error"
            /\ response' = PreconditionError(req)
       ELSE /\ pc' = "getCredentials"
            /\ response' = response
    /\ UNCHANGED <<poolVars, callVars, credentials, req, credLookups, found, credential,
                   i, results, waits, attempts>>
    /\ UNCHANGED <<cancelled, trackVars, renderVars, sideVars>>

\* getCredentials resolves; the row is chosen by credentialEmail or isDefault.
GetCredentials ==
    /\ pc = "getCredentials"
    /\ credLookups' = credLookups + 1
    /\ LET cred == FindCredential(credentials, req.credentialEmail) IN
       IF cred = None
       THEN /\ pc' = "error"
            /\ response' = IF req.credentialEmail # NoString
                           THEN AppError(<<"Email credential not found">>, 404)
                           ELSE AppError(<<"No email credential configured">>, 400)
            /\ found' = found
       ELSE /\ pc' = "getCredentialById"
            /\ found' = cred.id
            /\ response' = response
    /\ UNCHANGED <<poolVars, callVars, credentials, req, credential, i, results, waits,
                   attempts>>
    /\ UNCHANGED <<cancelled, trackVars, renderVars, sideVars>>

\* getCredentialById resolves or throws 404.
GetCredentialById ==
    /\ pc = "getCredentialById"
    /\ IF \E row \in credentials : row.id = found
       THEN /\ credential' = CHOOSE row \in credentials : row.id = found
            /\ pc' = "loop"
            /\ response' = response
       ELSE /\ credential' = credential
            /\ pc' = "error"
            /\ response' = AppError(<<"Credential not found">>, 404)
    /\ UNCHANGED <<poolVars, callVars, credentials, req, credLookups, found, i, results,
                   waits, attempts>>
    /\ UNCHANGED <<cancelled, trackVars, renderVars, sideVars>>

\* One loop iteration up to the await inside emailService.sendEmail.
IterStart ==
    /\ pc = "loop"
    /\ i < Len(req.recipients.list)
    /\ GetTransporter(RunCaller, credential.email)
    /\ attempts' = Append(attempts, [to |-> req.recipients.list[i + 1], from |-> credential.email,
                                     i |-> i, fresh |-> cfrom'[RunCaller] = "new"])
    /\ pc' = "sending"
    /\ UNCHANGED <<now, credentials, req, credLookups, found, credential, loopVars>>
    /\ UNCHANGED <<cancelled, trackVars, renderVars, sideVars>>

\* error.message || 'Unknown error'
MessageOrUnknown(message) == IF message = <<>> THEN <<"Unknown error">> ELSE message

\* The entry pushed to results[] for the recipient at index idx.
ResultEntry(recipient, ret) ==
    IF ret = Ok
    THEN [email |-> recipient, status |-> "sent", error |-> <<>>]
    ELSE [email |-> recipient, status |-> "failed", error |-> MessageOrUnknown(ret.message)]

\* Mutant of WaitMs: the batch boundary is tested on idx instead of idx + 1.
WaitMsMut(idx, n, batchSize, batchDelay) ==
    IF idx % batchSize = 0 /\ idx < n - 1 THEN batchDelay * 1000
    ELSE IF idx < n - 1 THEN StaggerMs
    ELSE 0

\* The wait after the recipient at index idx of n: 0 when none is awaited.
WaitMs(idx, n, batchSize, batchDelay) ==
    IF (idx + 1) % batchSize = 0 /\ idx < n - 1 THEN batchDelay * 1000
    ELSE IF idx < n - 1 THEN StaggerMs
    ELSE 0

\* Mutant of Count: the first entry is not counted.
CountMut(rs, status) == Cardinality({k \in 2..Len(rs) : rs[k].status = status})

\* results.filter(r => r.status === status).length
Count(rs, status) == Cardinality({k \in 1..Len(rs) : rs[k].status = status})

\* res.json({message, results, summary})
Summary(rs, recipients) ==
    [statusCode |-> 200, results |-> rs,
     summary |-> [total |-> Len(recipients), sent |-> Count(rs, "sent"),
                  failed |-> Count(rs, "failed")]]

\* Mutant of AfterSendEmail: a failed send ends the loop.
AfterSendEmailMut(ret) ==
    LET n == Len(req.recipients.list)
        bs == WithDefault(req.batchSize, DefaultBatchSize)
        bd == WithDefault(req.batchDelay, DefaultBatchDelay)
        rs == Append(results, ResultEntry(req.recipients.list[i + 1], ret))
    IN /\ results' = rs
       /\ IF i < n - 1 /\ ret = Ok
          THEN /\ waits' = Append(waits, [after |-> i + 1, ms |-> WaitMs(i, n, bs, bd)])
               /\ pc' = "delay"
               /\ i' = i
               /\ response' = response
          ELSE /\ waits' = waits
               /\ pc' = "done"
               /\ i' = i + 1
               /\ response' = Summary(rs, req.recipients.list)

\* sendEmail returned or threw `ret`: push the result, then either await the
\* pacing timer or leave the loop and answer.
AfterSendEmail(ret) ==
    LET n == Len(req.recipients.list)
        bs == WithDefault(req.batchSize, DefaultBatchSize)
        bd == WithDefault(req.batchDelay, DefaultBatchDelay)
        rs == Append(results, ResultEntry(req.recipients.list[i + 1], ret))
    IN /\ results' = rs
       /\ IF i < n - 1
          THEN /\ waits' = Append(waits, [after |-> i + 1, ms |-> WaitMs(i, n, bs, bd)])
               /\ pc' = "delay"
               /\ i' = i
               /\ response' = response
          ELSE /\ waits' = waits
               /\ pc' = "done"
               /\ i' = i + 1
               /\ response' = Summary(rs, req.recipients.list)

RunVerifySettled(outcome) ==
    /\ pc = "sending"
    /\ VerifySettled(RunCaller, outcome)
    /\ IF cpc'[RunCaller] = "returned"
       THEN AfterSendEmail(cret'[RunCaller])
       ELSE UNCHANGED <<pc, loopVars>>
    /\ UNCHANGED <<credentials, req, credLookups, found, credential, attempts>>
    /\ UNCHANGED <<cancelled, trackVars, renderVars, sideVars>>

RunSendMailSettled(outcome) ==
    /\ pc = "sending"
    /\ SendMailSettled(RunCaller, outcome)
    /\ AfterSendEmail(cret'[RunCaller])
    /\ UNCHANGED <<credentials, req, credLookups, found, credential, attempts>>
    /\ UNCHANGED <<cancelled, trackVars, renderVars, sideVars>>

\* The pacing timer fires: i++ and the next iteration.
DelayElapsed ==
    /\ pc = "delay"
    /\ i' = i + 1
    /\ pc' = "loop"
    /\ UNCHANGED <<poolVars, callVars, credentials, req, credLookups, found, credential,
                   results, waits, attempts, response>>
    /\ UNCHANGED <<cancelled, trackVars, renderVars, sideVars>>

\* ------------------------------------------ EmailService.personalizeContent
\* A template is a sequence of text fragments; a fragment is either plain text
\* or the text of a placeholder as the author typed it.
Fragments == {"Hi ", "{fullName}", "{FULLNAME}", "{companyName}", "{jobTitle}",
              "{email}", "{Email}"}

\* Lower case of a fragment (the 'i' flag of the RegExp compares this way).
ToLowerCase(f) ==
    CASE f \in {"{fullName}", "{FULLNAME}"} -> "{fullname}"
      [] f = "{companyName}" -> "{companyname}"
      [] f = "{jobTitle}" -> "{jobtitle}"
      [] f \in {"{email}", "{Email}"} -> "{email}"
      [] OTHER -> f

\* String.prototype.replace with a string replacement: "$&" in the
\* replacement stands for the matched text.
Replacement(match, value) == IF value = "$&" THEN match ELSE value

\* result.replace(new RegExp(`\\{${key}\\}`, 'gi'), value || '')
ReplaceAll(text, key, value) ==
    [k \in 1..Len(text) |->
        IF ToLowerCase(text[k]) = ToLowerCase(key)
        THEN Replacement(text[k], value) ELSE text[k]]

\* personalizeContent(template, data): one replace per entry of data, in the
\* order of Object.entries(data).
RECURSIVE personalizeContent(_, _)
personalizeContent(template, data) ==
    IF data = <<>> THEN template
    ELSE personalizeContent(ReplaceAll(template, data[1].key, data[1].value), Tail(data))

\* The data object sendCampaign builds for a recipient: fullName, companyName
\* and jobTitle || ''.
PersonalizationData(recipient) ==
    << [key |-> "{fullName}", value |-> recipient.fullName],
       [key |-> "{companyName}", value |-> recipient.companyName],
       [key |-> "{jobTitle}", value |-> recipient.jobTitle] >>

\* Recipients of the address book: one with every field, one without a job
\* title, one whose name is the text of a placeholder, one whose company
\* name holds a replacement pattern.
RecipientRecords ==
    { [email |-> "a@x.com", fullName |-> "Ann", companyName |-> "Acme", jobTitle |-> "CTO"],
      [email |-> "b@x.com", fullName |-> "Bob", companyName |-> "Bolt", jobTitle |-> NoString],
      [email |-> "c@x.com", fullName |-> "{jobTitle}", companyName |-> "Core", jobTitle |-> "CEO"],
      [email |-> "d@x.com", fullName |-> "Dan", companyName |-> "$&", jobTitle |-> "Dev"] }

\* personalizedSubject = emailService.personalizeContent(subject, {...})
Personalize ==
    /\ rendered = None
    /\ rendered' = [text |-> personalizeContent(tmpl, PersonalizationData(rcpt))]
    /\ UNCHANGED <<poolVars, callVars, credentials, runVars, cancelled, trackVars, tmpl, rcpt,
                   sideVars>>

\* ------------------------------------------------------ tracking.service
\* crypto.randomBytes(16).toString('hex') and crypto.randomBytes(12)
\* .toString('hex'): the n-th draw of the process gives the n-th value. The
\* two kinds differ in length (32 and 24 characters).
TrackingTokens ==
    <<"t01", "t02", "t03", "t04", "t05", "t06", "t07", "t08", "t09", "t10", "t11", "t12",
      "t13", "t14", "t15", "t16", "t17", "t18", "t19", "t20", "t21", "t22", "t23", "t24",
      "t25", "t26", "t27", "t28", "t29", "t30", "t31", "t32", "t33", "t34", "t35", "t36",
      "t37", "t38", "t39", "t40", "t41", "t42", "t43", "t44", "t45", "t46", "t47", "t48">>
ClickTokens == <<"c01", "c02", "c03", "c04", "c05", "c06", "c07", "c08", "c09", "c10">>
generateTrackingToken(n) == TrackingTokens[n + 1]
\* Mutant of generateClickToken: every draw gives the same value.
generateClickTokenMut(n) == ClickTokens[1]
generateClickToken(n) == ClickTokens[n + 1]
\* A token no record has.
UnknownToken == "ffff"

\* process.env.BACKEND_URL || 'http://localhost:5000'
BaseUrl == "http://localhost:5000"

\* What a tracking call returned, or the error it threw.
\* `token` is the token the call was made with (none for createTrackingRecord);
\* `value` is a record: [opened] for the boolean of recordEmailOpen,
\* [originalUrl] for recordLinkClick, with <<>> for null.
\* `input` is the emailBody given to rewriteLinksForTracking.
Returned(op, token, value) ==
    [op |-> op, token |-> token, input |-> <<>>, threw |-> FALSE, value |-> value]
Threw(op, token) ==
    [op |-> op, token |-> token, input |-> <<>>, threw |-> TRUE, value |-> None]
\* No tracking call has been made.
NoCall == Returned("none", NoString, None)

\* The opens and clicks the file has recorded.
RECURSIVE SumClicks(_)
SumClicks(links) ==
    IF links = <<>> THEN 0 ELSE Head(links).clickCount + SumClicks(Tail(links))
RECURSIVE SumEvents(_)
SumEvents(records) ==
    IF records = <<>> THEN 0
    ELSE Head(records).openCount + SumClicks(Head(records).links) + SumEvents(Tail(records))

\* loadTrackingRecords(): the records of the file, [] when it cannot be read.
loadTrackingRecords(file, readOk) == IF readOk THEN file ELSE <<>>

\* The record createTrackingRecord builds.
NewRecord(data, token, t) ==
    [id |-> <<"uuid", token>>, trackingToken |-> token, recipientEmail |-> data.recipientEmail,
     subject |-> data.subject, campaignId |-> data.campaignId, openCount |-> 0,
     firstOpenedAt |-> NoNumber, lastOpenedAt |-> NoNumber,
     userAgent |-> NoString, ipAddress |-> NoString, links |-> <<>>, createdAt |-> t]

\* createTrackingRecord(data): append one line to the file.
createTrackingRecord(data, appendOk) ==
    /\ minted < MaxTokens
    /\ minted' = minted + 1
    /\ LET trackingToken == generateTrackingToken(minted) IN
       IF appendOk
       THEN /\ trackingFile' = Append(trackingFile, NewRecord(data, trackingToken, now))
            /\ registered' = registered \cup {trackingToken}
            /\ tret' = Returned("createTrackingRecord", NoString,
                                [trackingToken |-> trackingToken,
                                 trackingPixelUrl |-> <<BaseUrl, "/api/track/", "open/", trackingToken>>])
       ELSE /\ trackingFile' = trackingFile
            /\ registered' = registered
            /\ tret' = Threw("createTrackingRecord", NoString)
    /\ UNCHANGED <<poolVars, callVars, credentials, runVars, cancelled, renderVars, sideVars,
                   opens, clicks>>

\* Mutant of FindRecordIndex: a token no record has is answered with the last
\* record (the -1 of findIndex used as a place counted from the end).
FindRecordIndexMut(records, trackingToken) ==
    LET hits == {k \in 1..Len(records) : records[k].trackingToken = trackingToken}
    IN IF hits = {} THEN Len(records) ELSE CHOOSE k \in hits : \A h \in hits : k <= h

\* records.findIndex(r => r.trackingToken === trackingToken), counted from 1;
\* 0 when there is none.
FindRecordIndex(records, trackingToken) ==
    LET hits == {k \in 1..Len(records) : records[k].trackingToken = trackingToken}
    IN IF hits = {} THEN 0 ELSE CHOOSE k \in hits : \A h \in hits : k <= h

\* Mutant of OpenRecord: firstOpenedAt is set on every open.
OpenRecordMut(record, t, userAgent, ipAddress) ==
    [record EXCEPT !.openCount = @ + 1,
                   !.lastOpenedAt = t,
                   !.firstOpenedAt = t,
                   !.userAgent = userAgent,
                   !.ipAddress = ipAddress]

\* The mutation recordEmailOpen makes to the record it found.
OpenRecord(record, t, userAgent, ipAddress) ==
    [record EXCEPT !.openCount = @ + 1,
                   !.lastOpenedAt = t,
                   !.firstOpenedAt = IF @ = NoNumber THEN t ELSE @,
                   !.userAgent = userAgent,
                   !.ipAddress = ipAddress]

\* One more call counted for a token.
Bump(counts, token) ==
    IF token \in DOMAIN counts THEN [counts EXCEPT ![token] = @ + 1]
    ELSE [t \in DOMAIN counts \cup {token} |-> IF t = token THEN 1 ELSE counts[t]]

\* recordEmailOpen(trackingToken, userAgent, ipAddress): load, find, mutate,
\* save; any error is caught and answered with false.
recordEmailOpen(trackingToken, userAgent, ipAddress, readOk, writeOk) ==
    /\ SumEvents(trackingFile) < MaxEvents
    /\ LET records == loadTrackingRecords(trackingFile, readOk)
           recordIndex == FindRecordIndex(records, trackingToken)
       IN IF recordIndex = 0
          THEN /\ tret' = Returned("recordEmailOpen", trackingToken, [opened |-> FALSE])
               /\ UNCHANGED <<trackingFile, opens>>
          ELSE IF writeOk
          THEN /\ trackingFile' = [records EXCEPT ![recordIndex] =
                                      OpenRecord(@, now, userAgent, ipAddress)]
               /\ tret' = Returned("recordEmailOpen", trackingToken, [opened |-> TRUE])
               /\ opens' = Bump(opens, trackingToken)
          ELSE /\ tret' = Returned("recordEmailOpen", trackingToken, [opened |-> FALSE])
               /\ UNCHANGED <<trackingFile, opens>>
    /\ UNCHANGED <<poolVars, callVars, credentials, runVars, cancelled, renderVars,
                   minted, clicks, registered>>

\* An email body is a sequence of pieces: text, or an href attribute with its
\* quote character and its target. A target is a sequence of text fragments.
Text == [attr |-> "text"]
Href(quote, url) == [attr |-> "href", quote |-> quote, url |-> url]

\* Targets: a mail address, a phone number, an in-page anchor, two external
\* pages, a click-tracking address of this backend, and a page of another
\* site whose path has /api/track/ in it.
MailtoUrl == <<"mailto:", "hr@a.com">>
TelUrl == <<"tel:", "5550100">>
AnchorUrl == <<"#", "top">>
ExternalUrl1 == <<"https://", "a.com", "/jobs">>
ExternalUrl2 == <<"https://", "b.com", "/cv">>
TrackedUrl == <<BaseUrl, "/api/track/", "click/", "c00">>
OtherSiteUrl == <<"https://", "c.com", "/api/track/", "parcel">>
Urls == {MailtoUrl, TelUrl, AnchorUrl, ExternalUrl1, ExternalUrl2, TrackedUrl, OtherSiteUrl}

\* url.startsWith(prefix), for the prefixes the code tests.
StartsWith(url, prefix) == url[1] = prefix

\* The callback of emailBody.replace(linkRegex, ...) leaves the match alone.
Skipped(url) ==
    \/ StartsWith(url, "mailto:") \/ StartsWith(url, "tel:") \/ StartsWith(url, "#")
    \/ Includes(url, "/api/track/")

\* `${baseUrl}/api/track/click/${clickToken}`
TrackingUrl(clickToken) == <<BaseUrl, "/api/track/", "click/", clickToken>>

\* emailBody.replace(linkRegex, callback): the new body and links[], with n
\* tokens generated before the call.
RECURSIVE ReplaceLinks(_, _)
ReplaceLinks(emailBody, n) ==
    IF emailBody = <<>> THEN [body |-> <<>>, links |-> <<>>]
    ELSE LET piece == Head(emailBody) IN
         IF piece.attr = "href" /\ ~Skipped(piece.url)
         THEN LET clickToken == generateClickToken(n)
                  rest == ReplaceLinks(Tail(emailBody), n + 1)
              IN [body |-> <<Href("\"", TrackingUrl(clickToken))>> \o rest.body,
                  links |-> <<[clickToken |-> clickToken, originalUrl |-> piece.url]>>
                            \o rest.links]
         ELSE LET rest == ReplaceLinks(Tail(emailBody), n)
              IN [body |-> <<piece>> \o rest.body, links |-> rest.links]

\* links.map(l => ({...l, clickCount: 0}))
StoredLinks(links) ==
    [k \in 1..Len(links) |->
        [clickToken |-> links[k].clickToken, originalUrl |-> links[k].originalUrl,
         clickCount |-> 0, firstClickedAt |-> NoNumber, lastClickedAt |-> NoNumber]]

\* rewriteLinksForTracking(emailBody, trackingToken): no try/catch, an error
\* of saveTrackingRecords is thrown to the caller.
rewriteLinksForTracking(emailBody, trackingToken, readOk, writeOk) ==
    LET replaced == ReplaceLinks(emailBody, minted)
        records == loadTrackingRecords(trackingFile, readOk)
        recordIndex == FindRecordIndex(records, trackingToken)
    IN /\ minted + Len(replaced.links) <= MaxTokens
       /\ minted' = minted + Len(replaced.links)
       /\ IF Len(replaced.links) > 0 /\ recordIndex # 0
          THEN IF writeOk
               THEN /\ trackingFile' = [records EXCEPT ![recordIndex].links =
                                           StoredLinks(replaced.links)]
                    /\ tret' = [Returned("rewriteLinksForTracking", trackingToken, replaced)
                                   EXCEPT !.input = emailBody]
               ELSE /\ trackingFile' = trackingFile
                    /\ tret' = [Threw("rewriteLinksForTracking", trackingToken)
                                   EXCEPT !.input = emailBody]
          ELSE /\ trackingFile' = trackingFile
               /\ tret' = [Returned("rewriteLinksForTracking", trackingToken, replaced)
                              EXCEPT !.input = emailBody]
       /\ UNCHANGED <<poolVars, callVars, credentials, runVars, cancelled, renderVars, sideVars,
                      opens, clicks, registered>>

\* Mutant of FindLink: the last link of the record is taken instead of the
\* one that has the token.
FindLinkMut(records, clickToken) ==
    LET hits == {k \in 1..Len(records) :
                    \E l \in 1..Len(records[k].links) :
                        records[k].links[l].clickToken = clickToken}
    IN IF hits = {} THEN None
       ELSE LET k == CHOOSE x \in hits : \A h \in hits : x <= h
            IN [record |-> k, link |-> Len(records[k].links)]

\* The first record, in file order, that has a link with the click token, and
\* the first such link in it: [record, link], counted from 1; None when no
\* record has one.
FindLink(records, clickToken) ==
    LET hits == {k \in 1..Len(records) :
                    \E l \in 1..Len(records[k].links) :
                        records[k].links[l].clickToken = clickToken}
    IN IF hits = {} THEN None
       ELSE LET k == CHOOSE x \in hits : \A h \in hits : x <= h
                ls == {l \in 1..Len(records[k].links) :
                          records[k].links[l].clickToken = clickToken}
            IN [record |-> k, link |-> CHOOSE l \in ls : \A h \in ls : l <= h]

\* Mutant of ClickLink: the count is set to 1 instead of being incremented.
ClickLinkMut(link, t) ==
    [link EXCEPT !.clickCount = 1,
                 !.lastClickedAt = t,
                 !.firstClickedAt = IF @ = NoNumber THEN t ELSE @]

\* The mutation recordLinkClick makes to the link it found.
ClickLink(link, t) ==
    [link EXCEPT !.clickCount = @ + 1,
                 !.lastClickedAt = t,
                 !.firstClickedAt = IF @ = NoNumber THEN t ELSE @]

\* recordLinkClick(clickToken): load, scan, mutate, save; any error is
\* caught and answered with null.
recordLinkClick(clickToken, readOk, writeOk) ==
    /\ SumEvents(trackingFile) < MaxEvents
    /\ LET records == loadTrackingRecords(trackingFile, readOk)
           at == FindLink(records, clickToken)
       IN IF at = None
          THEN /\ tret' = Returned("recordLinkClick", clickToken, [originalUrl |-> <<>>])
               /\ UNCHANGED <<trackingFile, clicks>>
          ELSE IF writeOk
          THEN /\ trackingFile' = [records EXCEPT ![at.record].links[at.link] =
                                      ClickLink(@, now)]
               /\ tret' = Returned("recordLinkClick", clickToken,
                          [originalUrl |-> records[at.record].links[at.link].originalUrl])
               /\ clicks' = Bump(clicks, clickToken)
          ELSE /\ tret' = Returned("recordLinkClick", clickToken, [originalUrl |-> <<>>])
               /\ UNCHANGED <<trackingFile, clicks>>
    /\ UNCHANGED <<poolVars, callVars, credentials, runVars, cancelled, renderVars,
                   minted, opens, registered>>

\* ------------------------------------------------- IEEE 754 double arithmetic
\* A positive double is [hi, mid, lo, exp]: its value is
\* (1 + hi/2^18 + mid/2^35 + lo/2^52) * 2^exp, the 52 fraction bits of the
\* significand being cut into pieces of 18, 17 and 17 bits.  Only what
\* getTrackingStats needs is modelled: the quotient of two small positive
\* integers, a product by 100, and Math.round.
HiBits == 18
LowBits == 17

\* 2^n
RECURSIVE Pow2(_)
Pow2(n) == IF n = 0 THEN 1 ELSE 2 * Pow2(n - 1)

\* The least s with a * 2^s >= b.
RECURSIVE ShiftToReach(_, _)
ShiftToReach(a, b) == IF a >= b THEN 0 ELSE 1 + ShiftToReach(2 * a, b)

\* Round to nearest, ties to even: x is the double cut off after 52 fraction
\* bits, `guard` the first bit dropped, `sticky` whether any later dropped
\* bit is 1.
RoundToEven(x, guard, sticky) ==
    IF guard = 1 /\ (sticky \/ (x.lo % 2) = 1)
    THEN LET lo == x.lo + 1
             mid == x.mid + (lo \div Pow2(LowBits))
             hi == x.hi + (mid \div Pow2(LowBits))
         IN [hi |-> hi % Pow2(HiBits), mid |-> mid % Pow2(LowBits),
             lo |-> lo % Pow2(LowBits), exp |-> x.exp + (hi \div Pow2(HiBits))]
    ELSE x

\* The double a / b for integers 0 < a <= b < 2^7 (long division, one piece
\* of the quotient at a time).
DoubleDivide(a, b) ==
    LET s == ShiftToReach(a, b)
        r0 == a * Pow2(s) - b
        hi == (r0 * Pow2(HiBits)) \div b
        r1 == (r0 * Pow2(HiBits)) % b
        mid == (r1 * Pow2(LowBits)) \div b
        r2 == (r1 * Pow2(LowBits)) % b
        lo == (r2 * Pow2(LowBits)) \div b
        r3 == (r2 * Pow2(LowBits)) % b
        guard == IF 2 * r3 >= b THEN 1 ELSE 0
        sticky == (2 * r3 - guard * b) # 0
    IN RoundToEven([hi |-> hi, mid |-> mid, lo |-> lo, exp |-> 0 - s], guard, sticky)

\* The double x * c for an integer 64 <= c < 128.
DoubleTimes(x, c) ==
    LET t3 == x.lo * c
        t2 == x.mid * c + (t3 \div Pow2(LowBits))
        t1 == x.hi * c + (t2 \div Pow2(LowBits))
        top == c + (t1 \div Pow2(HiBits))
        low1 == t1 % Pow2(HiBits)
        low2 == t2 % Pow2(LowBits)
        low3 == t3 % Pow2(LowBits)
        \* the product is top * 2^52 + low1 * 2^34 + low2 * 2^17 + low3;
        \* `extra` bits of it are dropped
        extra == IF top < 128 THEN 6 ELSE 7
        dropped == low3 % Pow2(extra)
        guard == dropped \div Pow2(extra - 1)
        sticky == (dropped % Pow2(extra - 1)) # 0
        cut == [hi |-> (top % Pow2(extra)) * Pow2(HiBits - extra) + (low1 \div Pow2(extra)),
                mid |-> (low1 % Pow2(extra)) * Pow2(LowBits - extra) + (low2 \div Pow2(extra)),
                lo |-> (low2 % Pow2(extra)) * Pow2(LowBits - extra) + (low3 \div Pow2(extra)),
                exp |-> x.exp + extra]
    IN RoundToEven(cut, guard, sticky)

\* Math.round(x) for a double x below 2^17: the nearest integer, a half goes
\* up.
MathRound(x) ==
    IF x.exp < 0 - 1 THEN 0
    ELSE IF x.exp = 0 - 1 THEN 1
    ELSE Pow2(x.exp) + (x.hi \div Pow2(HiBits - x.exp))
         + ((x.hi \div Pow2(HiBits - 1 - x.exp)) % 2)

\* totalSent > 0 ? Math.round((totalOpened / totalSent) * 100) : 0
OpenRate(totalOpened, totalSent) ==
    IF totalSent > 0
    THEN IF totalOpened = 0 THEN 0
         ELSE MathRound(DoubleTimes(DoubleDivide(totalOpened, totalSent), 100))
    ELSE 0

\* totalClicks and uniqueClicks: the two counters of the nested loops.
RECURSIVE CountClicks(_)
CountClicks(records) ==
    IF records = <<>> THEN [totalClicks |-> 0, uniqueClicks |-> 0]
    ELSE LET links == Head(records).links
             rest == CountClicks(Tail(records))
         IN [totalClicks |-> SumClicks(links) + rest.totalClicks,
             uniqueClicks |-> Len(SelectSeq(links, LAMBDA link : link.clickCount > 0))
                              + rest.uniqueClicks]

\* getTrackingStats(campaignId): reads the file and writes nothing; an
\* undefined or empty campaignId is falsy and selects every record.
getTrackingStats(campaignId, readOk) ==
    LET loaded == loadTrackingRecords(trackingFile, readOk)
        records == IF campaignId # NoString
                   THEN SelectSeq(loaded, LAMBDA r : r.campaignId = campaignId)
                   ELSE loaded
        totalSent == Len(records)
        totalOpened == Len(SelectSeq(records, LAMBDA r : r.openCount > 0))
        counted == CountClicks(records)
    IN /\ tret' = Returned("getTrackingStats", campaignId,
                           [totalSent |-> totalSent,
                            totalOpened |-> totalOpened,
                            openRate |-> OpenRate(totalOpened, totalSent),
                            totalClicks |-> counted.totalClicks,
                            uniqueClicks |-> counted.uniqueClicks,
                            records |-> records])
       /\ UNCHANGED <<poolVars, callVars, credentials, runVars, cancelled, renderVars, sideVars,
                      trackingFile, minted, opens, clicks, registered>>

\* The client aborts the request while the loop runs. sendCampaign takes
\* (req, res, next) and registers no listener on req and reads no token:
\* nothing in the handler observes the abort.
Cancel ==
    /\ pc \in {"loop", "sending", "delay"}
    /\ ~cancelled
    /\ cancelled' = TRUE
    /\ UNCHANGED <<poolVars, callVars, credentials, runVars, trackVars, renderVars, sideVars>>

\* No route has answered, no apiClient call has been made.
NoResponse == [status |-> 0, body |-> NoString, location |-> <<>>]

\* The ApiClient of a signed-in user, making no request: this.token and the
\* refreshToken of localStorage are those of the login.
IdleClient ==
    [pc |-> "idle", endpoint |-> NoString, skipRetry |-> FALSE, attempt |-> 0,
     authorization |-> NoString, fetches |-> <<>>, delays |-> <<>>, result |-> None,
     token |-> "access-1", refreshToken |-> "refresh-1"]

\* The addresses login requests come from.
Ips == {"10.0.0.1", "10.0.0.2"}

\* No request has reached the login route.
NoLogins == [hits |-> [ip \in Ips |-> [count |-> 0, resetAt |-> 0]], log |-> <<>>]

\* encrypt has not been called.
NothingEncrypted ==
    [pc |-> "idle", plain |-> <<>>, encrypted |-> <<>>, input |-> <<>>,
     threw |-> FALSE, decrypted |-> <<>>]

\* The rows of the emailCredential table the user starts with.
InitialCredentials ==
    { [id |-> 1, email |-> "s1@gmail.com", isDefault |-> FALSE],
      [id |-> 2, email |-> "s2@gmail.com", isDefault |-> TRUE] }

\* The requests that call CredentialService for the user, side by side.
CredCallers == {1, 2}

\* No createCredential or deleteCredential call has been made; the next row
\* gets the next id.
NoCredCalls ==
    [calls |-> [c \in CredCallers |->
                  [pc |-> "idle", op |-> NoString, email |-> NoString, isDefault |-> FALSE,
                   id |-> 0, outcome |-> NoString]],
     started |-> 0, nextId |-> Cardinality(InitialCredentials) + 1]

\* Nothing has happened beside the campaign run and the tracking store.
InitSide ==
    /\ tres = NoResponse
    /\ apiClient = IdleClient
    /\ auth = NoLogins
    /\ crypto = NothingEncrypted
    /\ credSvc = NoCredCalls

\* -------------------------------------------------------- specification
InitSend ==
    /\ now = 0
    /\ transporterCache = {}
    /\ transporters = <<>>
    /\ cpc = [c \in Callers |-> "idle"]
    /\ cfg = [c \in Callers |-> NoString]
    /\ ctr = [c \in Callers |-> 0]
    /\ cnow = [c \in Callers |-> 0]
    /\ cfrom = [c \in Callers |-> "none"]
    /\ cret = [c \in Callers |-> None]
    /\ credentials = InitialCredentials
    /\ pc = "idle"
    /\ req = None
    /\ credLookups = 0
    /\ found = 0
    /\ credential = None
    /\ i = 0
    /\ results = <<>>
    /\ waits = <<>>
    /\ attempts = <<>>
    /\ response = None
    /\ cancelled = FALSE

\* An empty tracking file, no token generated yet.
InitTrack ==
    /\ trackingFile = <<>>
    /\ minted = 0
    /\ tret = NoCall
    /\ opens = <<>>
    /\ clicks = <<>>
    /\ registered = {}

Init ==
    /\ InitSend
    /\ InitSide
    /\ InitTrack
    /\ tmpl = <<>>
    /\ rcpt = None
    /\ rendered = None

\* The outcomes enumerated for the concurrent callers.
PoolVerifyOutcomes == {Ok, MailError("ETIMEDOUT", <<"Connection timeout">>)}
PoolSendMailOutcomes == {Ok, MailError("EAUTH", <<"Invalid login">>)}
\* The outcomes enumerated for the sendCampaign request.
RunVerifyOutcomes == {Ok, MailError("EAUTH", <<"Invalid login">>)}
RunSendMailOutcomes == {Ok, MailError("EAUTH", <<"Invalid login">>), MailError("EENVELOPE", <<>>)}

\* One sendCampaign request, the clock, clearCache and deleteCredential.
Next ==
    \/ \E body \in Requests, viaRoute \in BOOLEAN : Receive(body, viaRoute)
    \/ RouteValidate
    \/ ControllerValidate
    \/ GetCredentials
    \/ GetCredentialById
    \/ IterStart
    \/ \E o \in RunVerifyOutcomes : RunVerifySettled(o)
    \/ \E o \in RunSendMailOutcomes : RunSendMailSettled(o)
    \/ DelayElapsed
    \/ \E id \in {1, 2} : DeleteCredential(id)
    \/ Cancel
    \/ ClearCache
    \/ Tick

Spec == Init /\ [][Next]_vars

\* Concurrent sendEmail calls on the shared EmailService, the clock and clearCache.
NextPool ==
    \/ \E c \in Callers, email \in SenderEmails : CallSendEmail(c, email)
    \/ \E c \in Callers, o \in PoolVerifyOutcomes : CallVerifySettled(c, o)
    \/ \E c \in Callers, o \in PoolSendMailOutcomes : CallSendMailSettled(c, o)
    \/ ClearCache
    \/ Tick

SpecPool == Init /\ [][NextPool]_vars

\* Bodies handed to rewriteLinksForTracking by the tracking calls.
TrackBodies ==
    { <<Text, Href("\"", ExternalUrl1)>>,
      <<Href("\"", ExternalUrl1), Href("'", ExternalUrl2), Href("\"", MailtoUrl)>> }

\* What createTrackingRecord is called with.
TrackingData ==
    { [recipientEmail |-> "a@x.com", subject |-> "Hello", campaignId |-> NoString],
      [recipientEmail |-> "b@x.com", subject |-> "Hello", campaignId |-> "spring"] }

\* The tokens given out so far, and one nobody has.
IssuedTrackingTokens == {TrackingTokens[n] : n \in 1..minted} \cup {UnknownToken}
IssuedClickTokens == {ClickTokens[n] : n \in 1..minted} \cup {UnknownToken}

\* The request headers of an open: user-agent and req.ip.
Clients == { [userAgent |-> NoString, ipAddress |-> NoString],
             [userAgent |-> "Mozilla", ipAddress |-> "10.0.0.7"] }

\* How the file system answers one call: all well, readFileSync throws, or
\* writeFileSync throws.
FileOutcomes == { [readOk |-> TRUE, writeOk |-> TRUE],
                  [readOk |-> FALSE, writeOk |-> TRUE],
                  [readOk |-> TRUE, writeOk |-> FALSE] }

\* The tracking calls in any order, each running to completion (none of them
\* awaits), and the clock.
NextTrack ==
    \/ \E data \in TrackingData, ok \in BOOLEAN : createTrackingRecord(data, ok)
    \/ \E body \in TrackBodies, t \in IssuedTrackingTokens, io \in FileOutcomes :
          rewriteLinksForTracking(body, t, io.readOk, io.writeOk)
    \/ \E t \in IssuedTrackingTokens, c \in Clients, io \in FileOutcomes :
          /\ recordEmailOpen(t, c.userAgent, c.ipAddress, io.readOk, io.writeOk)
          /\ UNCHANGED sideVars
    \/ \E t \in IssuedClickTokens, io \in FileOutcomes :
          /\ recordLinkClick(t, io.readOk, io.writeOk)
          /\ UNCHANGED sideVars
    \/ Tick

SpecTrack == Init /\ [][NextTrack]_vars

\* Bodies of at most MaxPieces pieces; the pieces a body is made of: text, an
\* href in double quotes for every target, and one in single quotes.
Bodies3 ==
    LET pieces == {Text} \cup {Href("\"", url) : url \in Urls} \cup {Href("'", ExternalUrl2)}
    IN UNION {[1..n -> pieces] : n \in 0..MaxPieces}

\* One record registered, no link stored yet.
InitLinks ==
    /\ InitSend
    /\ InitSide
    /\ trackingFile = <<NewRecord(CHOOSE data \in TrackingData : data.campaignId # NoString,
                                  generateTrackingToken(0), 0)>>
    /\ minted = 1
    /\ tret = NoCall
    /\ opens = <<>>
    /\ clicks = <<>>
    /\ registered = {generateTrackingToken(0)}
    /\ tmpl = <<>>
    /\ rcpt = None
    /\ rendered = None

\* One call of rewriteLinksForTracking on any body, for the record or for a
\* token no record has.
NextLinks ==
    /\ tret = NoCall
    /\ \E body \in Bodies3, t \in IssuedTrackingTokens, io \in FileOutcomes :
          rewriteLinksForTracking(body, t, io.readOk, io.writeOk)

SpecLinks == InitLinks /\ [][NextLinks]_vars

\* ------------------------------------------------ statistics of a filled store
\* The campaigns a statistics request can name: none, one that has records,
\* one that has none.
StatCampaigns == {NoString, "spring", "autumn"}

\* The links of the first record of the store: none, one never clicked, one
\* clicked twice, or two of which one was clicked.
StatLinks ==
    LET fresh == StoredLinks(<<[clickToken |-> generateClickToken(0), originalUrl |-> ExternalUrl1],
                               [clickToken |-> generateClickToken(1), originalUrl |-> ExternalUrl2]>>)
    IN { <<>>,
         <<fresh[1]>>,
         <<ClickLink(ClickLink(fresh[1], 0), 0)>>,
         <<ClickLink(fresh[1], 0), fresh[2]>> }

\* The store after n createTrackingRecord calls (every second one for the
\* campaign "spring"), a rewriteLinksForTracking for the first record, an
\* open of each of the first k records, and the clicks of `links`.
StatStore(n, k, links) ==
    [j \in 1..n |->
        LET data == [recipientEmail |-> "a@x.com", subject |-> "Hello",
                     campaignId |-> IF j % 2 = 1 THEN "spring" ELSE NoString]
            created == NewRecord(data, generateTrackingToken(j - 1), 0)
            linked == IF j = 1 THEN [created EXCEPT !.links = links] ELSE created
        IN IF j <= k THEN OpenRecord(linked, 0, NoString, NoString) ELSE linked]

InitStats ==
    /\ InitSend
    /\ InitSide
    /\ \E n \in 0..MaxStatRecords, k \in 0..MaxStatRecords, links \in StatLinks :
          /\ k <= n
          /\ n = 0 => links = <<>>
          /\ trackingFile = StatStore(n, k, links)
          /\ minted = n + Len(links)
          /\ opens = [t \in {generateTrackingToken(j - 1) : j \in 1..k} |-> 1]
          /\ clicks = [t \in {links[l].clickToken : l \in {x \in 1..Len(links) : links[x].clickCount > 0}}
                          |-> CHOOSE c \in 1..2 : \E l \in 1..Len(links) :
                                  links[l].clickToken = t /\ links[l].clickCount = c]
          /\ registered = {generateTrackingToken(j - 1) : j \in 1..n}
    /\ tret = NoCall
    /\ tmpl = <<>>
    /\ rcpt = None
    /\ rendered = None

\* One statistics request, for all records or for one campaign.
NextStats ==
    /\ tret = NoCall
    /\ \E campaignId \in StatCampaigns, readOk \in BOOLEAN :
          getTrackingStats(campaignId, readOk)

SpecStats == InitStats /\ [][NextStats]_vars

\* Templates of at most MaxTemplateLen fragments.
Templates == UNION {[1..n -> Fragments] : n \in 0..MaxTemplateLen}

\* A personalization of any template for any recipient.
InitRender ==
    /\ InitSend
    /\ InitSide
    /\ InitTrack
    /\ tmpl \in Templates
    /\ rcpt \in RecipientRecords
    /\ rendered = None

NextRender == Personalize

SpecRender == InitRender /\ [][NextRender]_vars

\* ---------------------------------------------------------- tracking routes
\* res.set({...}); res.send(TRANSPARENT_PIXEL)
PixelResponse == [status |-> 200, body |-> "image/gif", location |-> <<>>]

\* Mutant of ClickResponse: a click that found no link is answered as a
\* server error.
ClickResponseMut(ret) ==
    IF ret.threw THEN [status |-> 500, body |-> "Error processing request", location |-> <<>>]
    ELSE IF ret.value.originalUrl # <<>>
         THEN [status |-> 302, body |-> NoString, location |-> ret.value.originalUrl]
         ELSE [status |-> 500, body |-> "Error processing request", location |-> <<>>]

\* The answer of GET /click/:token to what recordLinkClick returned or threw.
ClickResponse(ret) ==
    IF ret.threw THEN [status |-> 500, body |-> "Error processing request", location |-> <<>>]
    ELSE IF ret.value.originalUrl # <<>>
         THEN [status |-> 302, body |-> NoString, location |-> ret.value.originalUrl]
         ELSE [status |-> 404, body |-> "Link not found or expired", location |-> <<>>]

\* GET /api/track/open/:token: the open is recorded (the promise is not
\* awaited, but recordEmailOpen has no await and runs to its end inside the
\* call) and the pixel is sent whatever it answered.
GetOpen(token, userAgent, ipAddress, readOk, writeOk) ==
    /\ recordEmailOpen(token, userAgent, ipAddress, readOk, writeOk)
    /\ tres' = PixelResponse
    /\ UNCHANGED <<apiClient, auth, crypto, credSvc>>

\* GET /api/track/click/:token
GetClick(token, readOk, writeOk) ==
    /\ recordLinkClick(token, readOk, writeOk)
    /\ tres' = ClickResponse(tret')
    /\ UNCHANGED <<apiClient, auth, crypto, credSvc>>

\* A store of two records, the first with one or two links of which at most
\* one was clicked once.
InitRoutes ==
    /\ InitSend
    /\ InitSide
    /\ \E links \in {ls \in StatLinks : Len(ls) > 0 /\ SumClicks(ls) <= 1} :
          /\ trackingFile = StatStore(2, 0, links)
          /\ minted = 2 + Len(links)
          /\ clicks = [t \in {links[l].clickToken : l \in {x \in 1..Len(links) : links[x].clickCount > 0}}
                          |-> 1]
    /\ opens = <<>>
    /\ registered = {generateTrackingToken(0), generateTrackingToken(1)}
    /\ tret = NoCall
    /\ tmpl = <<>>
    /\ rcpt = None
    /\ rendered = None

\* Requests of mail clients and recipients, for tokens that exist and for
\* one that does not.
NextRoutes ==
    \/ \E t \in IssuedTrackingTokens, c \in Clients, io \in FileOutcomes :
          GetOpen(t, c.userAgent, c.ipAddress, io.readOk, io.writeOk)
    \/ \E t \in IssuedClickTokens, io \in FileOutcomes :
          GetClick(t, io.readOk, io.writeOk)
    \/ Tick

SpecRoutes == InitRoutes /\ [][NextRoutes]_vars

\* ------------------------------------------------------ frontend ApiClient
\* CONFIG.maxRetries, CONFIG.retryDelay, CONFIG.retryableStatuses
maxRetries == 3
retryDelay == 1000
retryableStatuses == {408, 429, 500, 502, 503, 504}

\* How one fetch ends: a response (ok or not, with the message
\* extractErrorMessage finds in it), the abort of the timeout controller, or
\* a TypeError of fetch itself, whose message depends on the browser.
FetchResponse(status, message) ==
    [name |-> "Response", status |-> status, message |-> message]
FetchOutcomes ==
    {FetchResponse(200, <<>>),
     FetchResponse(400, <<"Validation failed">>),
     FetchResponse(400, <<"Could not ", "fetch", " the recipients">>),
     FetchResponse(401, <<"Invalid or expired token">>),
     FetchResponse(503, <<"Service unavailable, ", "fetch", " again later">>)}
    \cup {FetchResponse(status, <<"Server error">>) : status \in retryableStatuses}
    \cup {[name |-> "AbortError", status |-> 0, message |-> <<"The operation was aborted">>],
          [name |-> "TypeError", status |-> 0, message |-> <<"Failed to ", "fetch">>],
          [name |-> "TypeError", status |-> 0, message |-> <<"Load failed">>]}

\* The calls of request the application makes: getMe() with the default
\* options, sendCampaign() with skipRetry.
ApiCalls ==
    {[endpoint |-> "/auth/me", skipRetry |-> FALSE],
     [endpoint |-> "/campaigns/send", skipRetry |-> TRUE]}

\* CONFIG.retryDelay * Math.pow(2, attempt)
Backoff(attempt) == retryDelay * Pow2(attempt)

\* The catch block of the loop body: whether the loop goes on after a wait,
\* and the error thrown to the caller when it does not.
CatchBlock(error, skipRetry, attempt) ==
    IF error.name = "AbortError"
    THEN [retry |-> ~skipRetry /\ attempt < maxRetries,
          error |-> [name |-> "Error", status |-> 0, message |-> <<"Request timeout">>]]
    ELSE [retry |-> ~skipRetry /\ attempt < maxRetries /\ Includes(error.message, "fetch"),
          error |-> error]

\* The try block after fetch has settled. An error thrown for a response
\* that is not ok is thrown inside the try and so reaches the catch block.
AfterFetch(outcome, skipRetry, attempt) ==
    IF outcome.name # "Response" THEN CatchBlock(outcome, skipRetry, attempt)
    ELSE IF outcome.status = 200 THEN [retry |-> FALSE, error |-> None]
    ELSE IF ~skipRetry /\ attempt < maxRetries /\ outcome.status \in retryableStatuses
         THEN [retry |-> TRUE, error |-> None]
         ELSE CatchBlock([name |-> "Error", status |-> outcome.status,
                          message |-> outcome.message], skipRetry, attempt)

\* request(endpoint, options): the headers are built once, from this.token,
\* and the first fetch is made.
ApiRequest(call) ==
    /\ apiClient.pc \in {"idle", "done"}
    /\ apiClient' = [apiClient EXCEPT !.pc = "fetching", !.endpoint = call.endpoint,
                                !.skipRetry = call.skipRetry, !.attempt = 0,
                                !.authorization = apiClient.token,
                                !.fetches = <<>>, !.delays = <<>>, !.result = None]
    /\ UNCHANGED <<coreVars, tres, auth, crypto, credSvc>>

\* The fetch of the current attempt settles.
ApiFetchSettled(outcome) ==
    /\ apiClient.pc = "fetching"
    /\ LET fetched == Append(apiClient.fetches,
                             [authorization |-> apiClient.authorization, outcome |-> outcome])
           next == AfterFetch(outcome, apiClient.skipRetry, apiClient.attempt)
       IN apiClient' =
             IF next.retry
             THEN [apiClient EXCEPT !.pc = "delay", !.fetches = fetched,
                                 !.delays = Append(@, Backoff(apiClient.attempt))]
             ELSE [apiClient EXCEPT !.pc = "done", !.fetches = fetched,
                                 !.result = IF next.error = None
                                            THEN [threw |-> FALSE, error |-> None]
                                            ELSE [threw |-> TRUE, error |-> next.error]]
    /\ UNCHANGED <<coreVars, tres, auth, crypto, credSvc>>

\* The wait before a retry is over: `continue`, attempt++ and the next fetch.
ApiDelayElapsed ==
    /\ apiClient.pc = "delay"
    /\ apiClient' = [apiClient EXCEPT !.pc = "fetching", !.attempt = @ + 1]
    /\ UNCHANGED <<coreVars, tres, auth, crypto, credSvc>>

NextApi ==
    \/ \E call \in ApiCalls : ApiRequest(call)
    \/ \E outcome \in FetchOutcomes : ApiFetchSettled(outcome)
    \/ ApiDelayElapsed

SpecApi == Init /\ [][NextApi]_vars

\* ------------------------------------------------------------ login route
\* authLimiter: windowMs and max
AuthWindowMs == 15 * 60 * 1000
AuthMax == 5

\* express-rate-limit for one request of an address at time t: the counter
\* of the address starts again when its window is over, counts the request,
\* and the request passes while the counter is within max.
LimiterHit(hits, ip, t) ==
    LET current == IF hits[ip].count = 0 \/ t >= hits[ip].resetAt
                   THEN [count |-> 0, resetAt |-> t + AuthWindowMs]
                   ELSE hits[ip]
    IN [hits EXCEPT ![ip] = [current EXCEPT !.count = @ + 1]]

\* AuthService.login: the status the request ends with. Nothing about
\* earlier attempts is read or written.
AuthServiceLogin(userFound, isActive, isPasswordValid) ==
    IF ~userFound \/ ~isActive THEN 401
    ELSE IF ~isPasswordValid THEN 401
    ELSE 200

\* POST /auth/login from an address, for the account of the one registered
\* and active user, with the right or a wrong password: authLimiter, then
\* AuthService.login.
Login(ip, isPasswordValid) ==
    /\ Len(auth.log) < MaxLogins
    /\ LET hits == LimiterHit(auth.hits, ip, now)
           status == IF hits[ip].count > AuthMax THEN 429
                     ELSE AuthServiceLogin(TRUE, TRUE, isPasswordValid)
       IN auth' = [hits |-> hits,
                   log |-> Append(auth.log, [at |-> now, ip |-> ip,
                                             isPasswordValid |-> isPasswordValid,
                                             status |-> status])]
    /\ UNCHANGED <<coreVars, tres, apiClient, crypto, credSvc>>

NextLogin ==
    \/ \E ip \in Ips, isPasswordValid \in BOOLEAN : Login(ip, isPasswordValid)
    \/ Tick

SpecLogin == Init /\ [][NextLogin]_vars

\* --------------------------------------------------------- utils/encryption
\* A string is the sequence of its UTF-16 code units, a buffer a sequence of
\* bytes, a hex text a sequence of characters.
IV_LENGTH == 16

\* The code units of the texts encrypted here: a, the separator ':', e with
\* an acute accent, and the two halves of a surrogate pair (U+1F510), each
\* of which can also stand alone in a JavaScript string.
CodeUnits == {97, 58, 233, 55357, 56592}
IsHighSurrogate(u) == u >= 55296 /\ u <= 56319
IsLowSurrogate(u) == u >= 56320 /\ u <= 57343

\* Buffer.from(text, 'utf8') as cipher.update(text, 'utf8', ...) does it: a
\* surrogate pair becomes four bytes, a surrogate without its partner the
\* three bytes of U+FFFD.
RECURSIVE Utf8Encode(_)
Utf8Encode(text) ==
    IF text = <<>> THEN <<>>
    ELSE LET u == Head(text) IN
         IF u < 128 THEN <<u>> \o Utf8Encode(Tail(text))
         ELSE IF u < 2048
         THEN <<192 + (u \div 64), 128 + (u % 64)>> \o Utf8Encode(Tail(text))
         ELSE IF IsHighSurrogate(u) /\ Len(text) > 1 /\ IsLowSurrogate(text[2])
         THEN LET hi == u - 55296
                  lo == text[2] - 56320
                  \* the code point is 65536 + hi * 1024 + lo
                  top == 1 + (hi \div 64)
              IN <<240 + (top \div 4),
                   128 + (top % 4) * 16 + ((hi % 64) \div 4),
                   128 + (hi % 4) * 16 + (lo \div 64),
                   128 + (lo % 64)>> \o Utf8Encode(Tail(Tail(text)))
         ELSE IF IsHighSurrogate(u) \/ IsLowSurrogate(u)
         THEN <<239, 191, 189>> \o Utf8Encode(Tail(text))
         ELSE <<224 + (u \div 4096), 128 + ((u \div 64) % 64), 128 + (u % 64)>>
              \o Utf8Encode(Tail(text))

\* buffer.toString('utf8') of well-formed UTF-8; a byte that starts no
\* sequence becomes U+FFFD.
RECURSIVE Utf8Decode(_)
Utf8Decode(bytes) ==
    IF bytes = <<>> THEN <<>>
    ELSE LET b == Head(bytes) IN
         IF b < 128 THEN <<b>> \o Utf8Decode(Tail(bytes))
         ELSE IF b >= 192 /\ b < 224 /\ Len(bytes) >= 2
         THEN <<(b - 192) * 64 + (bytes[2] - 128)>> \o Utf8Decode(SubSeq(bytes, 3, Len(bytes)))
         ELSE IF b >= 224 /\ b < 240 /\ Len(bytes) >= 3
         THEN <<(b - 224) * 4096 + (bytes[2] - 128) * 64 + (bytes[3] - 128)>>
              \o Utf8Decode(SubSeq(bytes, 4, Len(bytes)))
         ELSE IF b >= 240 /\ Len(bytes) >= 4
         THEN LET above == (b - 240) * 4096 + (bytes[2] - 128) * 64 + (bytes[3] - 128) - 1024
                  \* the code point less 65536 is above * 64 + (bytes[4] - 128)
              IN <<55296 + (above \div 16), 56320 + (above % 16) * 64 + (bytes[4] - 128)>>
                 \o Utf8Decode(SubSeq(bytes, 5, Len(bytes)))
         ELSE <<65533>> \o Utf8Decode(Tail(bytes))

\* buffer.toString('hex')
HexDigits == <<"0", "1", "2", "3", "4", "5", "6", "7", "8", "9", "a", "b", "c", "d", "e", "f">>
IsHexDigit(c) == \E d \in 1..16 : HexDigits[d] = c
HexValue(c) == (CHOOSE d \in 1..16 : HexDigits[d] = c) - 1
RECURSIVE ToHex(_)
ToHex(bytes) ==
    IF bytes = <<>> THEN <<>>
    ELSE <<HexDigits[(Head(bytes) \div 16) + 1], HexDigits[(Head(bytes) % 16) + 1]>>
         \o ToHex(Tail(bytes))

\* Buffer.from(text, 'hex'): the bytes of the pairs of hex digits, up to the
\* first pair that is not one.
RECURSIVE FromHex(_)
FromHex(text) ==
    IF Len(text) < 2 \/ ~IsHexDigit(text[1]) \/ ~IsHexDigit(text[2]) THEN <<>>
    ELSE <<HexValue(text[1]) * 16 + HexValue(text[2])>> \o FromHex(Tail(Tail(text)))

\* text.split(':'), and parts.join(':')
RECURSIVE Split(_)
Split(text) ==
    IF \A k \in 1..Len(text) : text[k] # ":" THEN <<text>>
    ELSE LET at == CHOOSE k \in 1..Len(text) :
                       text[k] = ":" /\ \A j \in 1..(k - 1) : text[j] # ":"
         IN <<SubSeq(text, 1, at - 1)>> \o Split(SubSeq(text, at + 1, Len(text)))
RECURSIVE Join(_)
Join(parts) ==
    IF parts = <<>> THEN <<>>
    ELSE IF Len(parts) = 1 THEN parts[1]
    ELSE parts[1] \o <<":">> \o Join(Tail(parts))

\* Buffer.from(env.ENCRYPTION_KEY, 'utf-8').slice(0, 32) for the key
\* '12345678901234567890123456789012'.
EncryptionKey == [k \in 1..32 |-> 48 + (k % 10)]

\* a XOR b on bytes
RECURSIVE Xor(_, _)
Xor(a, b) ==
    IF a = 0 THEN b ELSE IF b = 0 THEN a
    ELSE ((a + b) % 2) + 2 * Xor(a \div 2, b \div 2)
XorBlock(x, y) == [k \in 1..IV_LENGTH |-> Xor(x[k], y[k])]

\* The block cipher. AES itself is the library's; what the functions here
\* rely on is that it is a permutation of the 16-byte blocks chosen by the
\* key, and this is one: the bytes in reverse order, each moved by two key
\* bytes.
BlockEncrypt(block) ==
    [k \in 1..IV_LENGTH |->
        (block[IV_LENGTH + 1 - k] + EncryptionKey[k] + EncryptionKey[k + IV_LENGTH]) % 256]
BlockDecrypt(block) ==
    [k \in 1..IV_LENGTH |->
        (block[IV_LENGTH + 1 - k] + 512
         - EncryptionKey[IV_LENGTH + 1 - k] - EncryptionKey[2 * IV_LENGTH + 1 - k]) % 256]

\* The padding cipher.final adds (PKCS#7): n bytes of value n, n in 1..16.
AddPadding(bytes) ==
    LET n == IV_LENGTH - (Len(bytes) % IV_LENGTH)
    IN bytes \o [k \in 1..n |-> n]

\* Mutant of PaddingLength: the last byte is trusted without a look at the
\* bytes before it, and a padding of a whole block counts as none.
PaddingLengthMut(bytes) ==
    LET n == bytes[Len(bytes)]
    IN IF n >= 1 /\ n < IV_LENGTH THEN n ELSE 0

\* The padding decipher.final finds at the end of the decrypted bytes: its
\* length, 0 when the bytes do not end with a padding ('bad decrypt').
PaddingLength(bytes) ==
    LET n == bytes[Len(bytes)]
    IN IF n >= 1 /\ n <= IV_LENGTH /\ \A k \in (Len(bytes) - n + 1)..Len(bytes) : bytes[k] = n
       THEN n ELSE 0

\* CBC over the blocks of a padded buffer.
RECURSIVE CbcEncrypt(_, _)
CbcEncrypt(bytes, previous) ==
    IF bytes = <<>> THEN <<>>
    ELSE LET block == BlockEncrypt(XorBlock(SubSeq(bytes, 1, IV_LENGTH), previous))
         IN block \o CbcEncrypt(SubSeq(bytes, IV_LENGTH + 1, Len(bytes)), block)
RECURSIVE CbcDecrypt(_, _)
CbcDecrypt(bytes, previous) ==
    IF bytes = <<>> THEN <<>>
    ELSE LET block == SubSeq(bytes, 1, IV_LENGTH)
         IN XorBlock(BlockDecrypt(block), previous)
            \o CbcDecrypt(SubSeq(bytes, IV_LENGTH + 1, Len(bytes)), block)

\* encrypt(text) when crypto.randomBytes(IV_LENGTH) gives iv.
encrypt(text, iv) ==
    ToHex(iv) \o <<":">> \o ToHex(CbcEncrypt(AddPadding(Utf8Encode(text)), iv))

\* decrypt(text): [threw, value]. createDecipheriv throws for an iv that is
\* not 16 bytes long, decipher.final for a length that is no positive
\* multiple of the block length and for a wrong padding.
decrypt(text) ==
    LET parts == Split(text)
        iv == FromHex(parts[1])
        encryptedText == Join(Tail(parts))
        bytes == FromHex(encryptedText)
        failed == [threw |-> TRUE, value |-> <<>>]
    IN IF Len(iv) # IV_LENGTH THEN failed
       ELSE IF bytes = <<>> \/ Len(bytes) % IV_LENGTH # 0 THEN failed
       ELSE LET padded == CbcDecrypt(bytes, iv)
                n == PaddingLength(padded)
            IN IF n = 0 THEN failed
               ELSE [threw |-> FALSE,
                     value |-> Utf8Decode(SubSeq(padded, 1, Len(padded) - n))]

\* The texts encrypted: every string of up to MaxPlainLen code units.
PlainTexts == UNION {[1..n -> CodeUnits] : n \in 0..MaxPlainLen}

\* What crypto.randomBytes(IV_LENGTH) may give.
Ivs == {[k \in 1..IV_LENGTH |-> 0], [k \in 1..IV_LENGTH |-> (k * 37 + 180) % 256]}

\* The texts decrypt is called with: what encrypt returned, that with the
\* separator taken out, its first 32 characters (the iv alone), the text of
\* the unit test, and the empty text.
DecryptInputs(encrypted) ==
    {encrypted,
     SelectSeq(encrypted, LAMBDA c : c # ":"),
     SubSeq(encrypted, 1, 2 * IV_LENGTH),
     <<"i", "n", "v", "a", "l", "i", "d", "-", "n", "o", "-", "s", "e", "p">>,
     <<>>}

Encrypt(text, iv) ==
    /\ crypto.pc = "idle"
    /\ crypto' = [crypto EXCEPT !.pc = "encrypted", !.plain = text,
                                !.encrypted = encrypt(text, iv)]
    /\ UNCHANGED <<coreVars, tres, apiClient, auth, credSvc>>

Decrypt(text) ==
    /\ crypto.pc = "encrypted"
    /\ LET answer == decrypt(text)
       IN crypto' = [crypto EXCEPT !.pc = "decrypted", !.input = text,
                                   !.threw = answer.threw, !.decrypted = answer.value]
    /\ UNCHANGED <<coreVars, tres, apiClient, auth, credSvc>>

NextCrypto ==
    \/ \E text \in PlainTexts, iv \in Ivs : Encrypt(text, iv)
    \/ /\ crypto.pc = "encrypted"
       /\ \E text \in DecryptInputs(crypto.encrypted) : Decrypt(text)

SpecCrypto == Init /\ [][NextCrypto]_vars

\* ------------------------------------------------- the run under fairness
\* The steps of sendCampaign that the event loop runs once they are due:
\* what follows a resolved await of the controller's own code and a timer
\* that has been set. Whether and when verify() and sendMail() settle is up
\* to the mail server: createTransport is given no connectionTimeout,
\* greetingTimeout or socketTimeout, and no await is raced against a timer.
RunStep ==
    \/ RouteValidate
    \/ ControllerValidate
    \/ GetCredentials
    \/ GetCredentialById
    \/ IterStart
    \/ DelayElapsed

SpecLive == Init /\ [][Next]_vars /\ WF_vars(RunStep)

\* ------------------------------------------- one caller, every kind of error
\* What transporter.verify() and transporter.sendMail() reject with: the
\* errors of nodemailer by code, and one that carries the SMTP answer to a
\* login in its message without the code EAUTH.
MailErrors ==
    {MailError("EAUTH", <<"Invalid login", ": 535-5.7.8 Username and Password not accepted">>),
     MailError("ESOCKET", <<"Client network socket disconnected">>),
     MailError("ECONNECTION", <<"Connection closed">>),
     MailError("ETIMEDOUT", <<"Connection timeout">>),
     MailError("EENVELOPE", <<"No recipients defined">>),
     MailError(NoString, <<"Invalid login", ": 535-5.7.8 Username and Password not accepted">>)}

\* sendEmail calls of one caller, one after the other, and the clock.
NextClassify ==
    \/ \E email \in SenderEmails : CallSendEmail(RunCaller, email)
    \/ \E o \in {Ok} \cup MailErrors : CallVerifySettled(RunCaller, o)
    \/ \E o \in {Ok} \cup MailErrors : CallSendMailSettled(RunCaller, o)
    \/ Tick

SpecClassify == Init /\ [][NextClassify]_vars

\* ------------------------------------------------------ CredentialService
\* createCredential and deleteCredential for one user, one step per await:
\* between two awaits of a request the other request may run.
CredEmails == {"s1@gmail.com", "s3@gmail.com", "s4@gmail.com"}

\* The rows other than the call's bookkeeping.
credRest == <<poolVars, callVars, runVars, cancelled, trackVars, renderVars,
              tres, apiClient, auth, crypto>>

\* How a call ended.
CredDone(call, outcome) == [call EXCEPT !.pc = "done", !.outcome = outcome]

\* createCredential up to its first await: findUnique by userId_email; a row
\* found is answered with AppError 400, otherwise updateMany comes next when
\* data.isDefault is set and create when it is not.
CreateFindUnique(c, email, isDefault) ==
    /\ credSvc.calls[c].pc \in {"idle", "done"}
    /\ credSvc.started < MaxCredCalls
    /\ LET existing == {row \in credentials : row.email = email}
           call == [pc |-> IF isDefault THEN "updateMany" ELSE "create",
                    op |-> "createCredential", email |-> email, isDefault |-> isDefault,
                    id |-> 0, outcome |-> NoString]
       IN credSvc' = [credSvc EXCEPT
                         !.started = @ + 1,
                         !.calls[c] = IF existing # {} THEN CredDone(call, "400") ELSE call]
    /\ UNCHANGED <<credentials, credRest>>

\* updateMany({where: {userId, isDefault: true}, data: {isDefault: false}})
CreateUpdateMany(c) ==
    /\ credSvc.calls[c].pc = "updateMany"
    /\ credentials' = {[row EXCEPT !.isDefault = FALSE] : row \in credentials}
    /\ credSvc' = [credSvc EXCEPT !.calls[c].pc = "create"]
    /\ UNCHANGED credRest

\* emailCredential.create: the table takes one row per (userId, email), the
\* unique key findUnique looks rows up by; a second row is rejected (P2002).
CreateCreate(c) ==
    /\ credSvc.calls[c].pc = "create"
    /\ LET call == credSvc.calls[c] IN
       IF \E row \in credentials : row.email = call.email
       THEN /\ credentials' = credentials
            /\ credSvc' = [credSvc EXCEPT !.calls[c] = CredDone(call, "P2002")]
       ELSE /\ credentials' = credentials \cup
                   {[id |-> credSvc.nextId, email |-> call.email, isDefault |-> call.isDefault]}
            /\ credSvc' = [credSvc EXCEPT
                              !.nextId = @ + 1,
                              !.calls[c] = CredDone([call EXCEPT !.id = credSvc.nextId], "created")]
    /\ UNCHANGED credRest

\* deleteCredential up to its first await: findFirst by id; no row is
\* answered with AppError 404.
DeleteFindFirst(c, id) ==
    /\ credSvc.calls[c].pc \in {"idle", "done"}
    /\ credSvc.started < MaxCredCalls
    /\ LET call == [pc |-> "delete", op |-> "deleteCredential", email |-> NoString,
                    isDefault |-> FALSE, id |-> id, outcome |-> NoString]
       IN credSvc' = [credSvc EXCEPT
                         !.started = @ + 1,
                         !.calls[c] = IF \E row \in credentials : row.id = id
                                      THEN call ELSE CredDone(call, "404")]
    /\ UNCHANGED <<credentials, credRest>>

\* emailCredential.delete({where: {id}}): a row that is gone by now is
\* rejected (P2025).
DeleteDelete(c) ==
    /\ credSvc.calls[c].pc = "delete"
    /\ LET call == credSvc.calls[c] IN
       IF \E row \in credentials : row.id = call.id
       THEN /\ credentials' = {row \in credentials : row.id # call.id}
            /\ credSvc' = [credSvc EXCEPT !.calls[c] = CredDone(call, "deleted")]
       ELSE /\ credentials' = credentials
            /\ credSvc' = [credSvc EXCEPT !.calls[c] = CredDone(call, "P2025")]
    /\ UNCHANGED credRest

NextCred ==
    \E c \in CredCallers :
        \/ \E email \in CredEmails, isDefault \in BOOLEAN : CreateFindUnique(c, email, isDefault)
        \/ CreateUpdateMany(c)
        \/ CreateCreate(c)
        \/ \E id \in 1..credSvc.nextId : DeleteFindFirst(c, id)
        \/ DeleteDelete(c)

SpecCred == Init /\ [][NextCred]_vars

\* ------------------------------------------------------------------ claims
Recipients == req.recipients.list
Last(seq) == seq[Len(seq)]
Running == pc \in {"loop", "sending", "delay", "done"}

\* C1: whenever the run has answered, sent + failed = total = number of input
\* recipients, and results holds one entry per recipient, in input order, each
\* sent or failed.
C1_SummaryCountsEveryRecipient ==
    pc = "done" =>
        /\ response.statusCode = 200
        /\ response.results = results
        /\ response.summary.total = Len(Recipients)
        /\ response.summary.sent + response.summary.failed = response.summary.total
        /\ Len(results) = Len(Recipients)
        /\ \A k \in 1..Len(results) :
              /\ results[k].email = Recipients[k]
              /\ results[k].status \in {"sent", "failed"}
        /\ response.summary.sent = Cardinality({k \in 1..Len(results) : results[k].status = "sent"})

C1_Witness ==
    /\ pc = "done"
    /\ Len(Recipients) = 3
    /\ response.summary.sent = 2
    /\ response.summary.failed = 1

\* C2: a failed sendEmail is recorded as a failed entry with a non-empty
\* message and the loop goes on: the k-th sendEmail call is for the k-th
\* recipient, no recipient is skipped or tried twice, and a finished run has
\* made one call per recipient.
C2_FailureIsRecordedAndLoopContinues ==
    /\ \A k \in 1..Len(results) :
          results[k].status = "failed" =>
              \E j \in 1..Len(results[k].error) : results[k].error[j] # ""
    /\ \A k \in 1..Len(attempts) : attempts[k].to = Recipients[k]
    /\ Running => Len(attempts) = Len(results) + (IF pc = "sending" THEN 1 ELSE 0)
    /\ pc = "done" => Len(attempts) = Len(Recipients)
    /\ (pc \in {"delay", "done"} /\ cret[RunCaller] # Ok) => Last(results).status = "failed"
    /\ (pc \in {"delay", "done"} /\ cret[RunCaller] = Ok) => Last(results).status = "sent"

C2_Witness ==
    /\ pc = "done"
    /\ Len(Recipients) = 3
    /\ results[1].status = "failed"
    /\ results[1].error = <<"Email sending failed: ">>
    /\ results[2].status = "sent"
    /\ results[3].status = "failed"
    /\ Len(attempts) = 3

\* An entry of results[] that reports an authentication failure (401).
IsAuthFailure(entry) ==
    /\ entry.status = "failed"
    /\ entry.error[1] \in {"Gmail authentication failed. Please check your App Password.",
                           "SMTP authentication failed: "}

\* C3: once a recipient has failed with an authentication error, every later
\* recipient of the run is failed with the same error and no new transporter
\* is created and verified for it.
C3_AuthFailureShortCircuitsTheRun ==
    \A k \in 1..Len(results) :
        IsAuthFailure(results[k]) =>
            /\ \A j \in (k + 1)..Len(attempts) : ~attempts[j].fresh
            /\ \A j \in (k + 1)..Len(results) : /\ results[j].status = "failed"
                                                /\ results[j].error = results[k].error

\* C4: a getTransporter call made while a verified entry younger than 30
\* minutes is cached for the sender creates no transporter (so verifies none)
\* and returns the cached one; the cache never holds two entries for a sender.
C4_ValidCachedTransporterIsReused ==
    /\ [](\A k \in SenderEmails : Cardinality({e \in transporterCache : e.key = k}) <= 1)
    /\ [][\A c \in Callers : \A e \in transporterCache :
            ( /\ cpc[c] \in {"idle", "returned"}
              /\ cpc'[c] \in {"verify", "sendMail"}
              /\ cfg'[c] = e.key
              /\ e.verified
              /\ now - e.lastUsed < 30 * 60 * 1000 )
            => ( /\ transporters' = transporters
                 /\ cpc'[c] = "sendMail"
                 /\ ctr'[c] = e.transporter
                 /\ \E e2 \in transporterCache' :
                       e2.key = e.key /\ e2.transporter = e.transporter )]_vars

\* Two callers are sending on the same cached transporter, one of them having
\* got it from the cache, while the other sender has its own entry.
C4_Witness ==
    /\ cpc[1] = "sendMail" /\ cpc[2] = "sendMail"
    /\ ctr[1] = ctr[2]
    /\ cfrom[2] = "cache"
    /\ Cardinality(transporterCache) = 2

\* C5: a transporter that was verified (and so cached) is closed when it
\* leaves the cache: none stays open outside the cache.
C5_EvictedTransportersAreClosed ==
    \A id \in 1..Len(transporters) :
        (transporters[id].verified /\ transporters[id].open)
            => \E e \in transporterCache : e.transporter = id

\* C6: when verify() fails, sendEmail throws a 401 and the cache holds no
\* entry for that sender afterwards.
C6_FailedVerifyLeavesNoEntry ==
    [][\A c \in Callers :
          (cpc[c] = "verify" /\ cpc'[c] = "returned")
              => /\ cret'[c].statusCode = 401
                 /\ CacheGet(transporterCache', cfg[c]) = None]_vars

\* A transporter that is open and either cached or held by a call in flight.
Live(id) ==
    /\ transporters[id].open
    /\ \/ \E e \in transporterCache : e.transporter = id
       \/ \E c \in Callers : cpc[c] \in {"verify", "sendMail"} /\ ctr[c] = id

\* C7: whatever the interleaving, at most one transporter is live per sender.
C7_AtMostOneLiveTransporterPerSender ==
    \A k \in SenderEmails :
        Cardinality({id \in 1..Len(transporters) : transporters[id].owner = k /\ Live(id)}) <= 1

\* A request body that fails the preconditions of sendCampaign.
FailsPreconditions(body) ==
    \/ ~body.recipients.defined
    \/ body.recipients.list = <<>>
    \/ body.subject = ""
    \/ body.body = ""

\* C8: a request without recipients, subject or body is answered 400 with no
\* credential lookup, no transporter, no send attempt and no results.
C8_InvalidRequestRejectedBeforeAnyIO ==
    (req # None /\ FailsPreconditions(req)) =>
        /\ pc \in {"route", "controller", "error"}
        /\ pc = "error" => response.statusCode = 400
        /\ credLookups = 0
        /\ transporters = <<>>
        /\ attempts = <<>>
        /\ results = <<>>

C8_Witness ==
    /\ pc = "error"
    /\ req.recipients.list # <<>>
    /\ req.subject # ""
    /\ req.body = ""
    /\ response.statusCode = 400

\* C9: getCredentials is called at most once; a run that reaches the loop
\* holds the row named by credentialEmail, or the default row when none is
\* named, and every sendEmail call is made from it; a request that ends in an
\* error has made no sendEmail call.
C9_OneCredentialForTheWholeRun ==
    /\ credLookups <= 1
    /\ Running =>
          /\ credLookups = 1
          /\ credential \in InitialCredentials
          /\ IF req.credentialEmail # ""
             THEN credential.email = req.credentialEmail
             ELSE credential.isDefault
          /\ \A k \in 1..Len(attempts) : attempts[k].from = credential.email
    /\ pc = "error" =>
          /\ attempts = <<>>
          /\ results = <<>>
          /\ transporters = <<>>
          /\ response.statusCode \in {400, 404}

\* The named credential was deleted between the two lookups: the request
\* failed without a send.
C9_Witness ==
    /\ pc = "error"
    /\ credLookups = 1
    /\ found = 1
    /\ response = AppError(<<"Credential not found">>, 404)

\* batchSize and batchDelay as the loop uses them.
EffBatchSize == IF req.batchSize = NoNumber THEN 10 ELSE req.batchSize
EffBatchDelay == IF req.batchDelay = NoNumber THEN 60 ELSE req.batchDelay

\* C10: the k-th wait follows the k-th recipient, k < n; it lasts batchDelay
\* seconds when k is a multiple of batchSize and 300 ms otherwise; every
\* recipient but the last is followed by a wait, so a finished run has made
\* n - 1 waits, floor((n - 1) / batchSize) of them long.
C10_PacingBetweenRecipients ==
    Running =>
        /\ \A k \in 1..Len(waits) :
              /\ waits[k].after = k
              /\ k < Len(Recipients)
              /\ waits[k].ms = IF k % EffBatchSize = 0 THEN EffBatchDelay * 1000 ELSE 300
        /\ Len(waits) = IF pc = "done" THEN Len(Recipients) - 1 ELSE Len(results)
        /\ pc = "done" =>
              Cardinality({k \in 1..Len(waits) : waits[k].ms = EffBatchDelay * 1000})
                  = (Len(Recipients) - 1) \div EffBatchSize

C10_Witness ==
    /\ pc = "done"
    /\ Len(Recipients) = 3
    /\ req.batchSize = 2
    /\ waits = <<[after |-> 1, ms |-> 300], [after |-> 2, ms |-> 1000]>>

\* C11: a run can be cancelled from outside; once it is cancelled no further
\* recipient is started (no further sendEmail call is made), and the partial
\* result is returned.
C11_NoRecipientStartedAfterCancel ==
    [][cancelled => attempts' = attempts]_vars

\* C12: before each recipient's send attempt exactly one tracking record has
\* been registered for that recipient.
C12_TrackingRecordPerAttempt ==
    \A k \in 1..Len(attempts) :
        Cardinality({n \in 1..Len(trackingFile) :
                        trackingFile[n].recipientEmail = attempts[k].to}) = 1

\* The four recognized placeholders, in lower case.
Placeholders == {"{fullname}", "{companyname}", "{jobtitle}", "{email}"}

\* The recipient's field a placeholder stands for.
FieldOf(recipient, f) ==
    CASE ToLowerCase(f) = "{fullname}" -> recipient.fullName
      [] ToLowerCase(f) = "{companyname}" -> recipient.companyName
      [] ToLowerCase(f) = "{jobtitle}" -> recipient.jobTitle
      [] ToLowerCase(f) = "{email}" -> recipient.email

\* C13: in the text sendCampaign passes to sendEmail every occurrence of each
\* of the four placeholders of the template, in any letter case, is replaced
\* by the recipient's corresponding field and everything else is kept.
C13_EveryPlaceholderIsResolved ==
    rendered # None =>
        /\ Len(rendered.text) = Len(tmpl)
        /\ \A k \in 1..Len(tmpl) :
              rendered.text[k] = IF ToLowerCase(tmpl[k]) \in Placeholders
                                 THEN FieldOf(rcpt, tmpl[k]) ELSE tmpl[k]

\* The number of calls counted for a token.
CountOf(counts, token) == IF token \in DOMAIN counts THEN counts[token] ELSE 0

\* The places of the records with a tracking token.
RecordsWith(file, token) == {k \in 1..Len(file) : file[k].trackingToken = token}

\* C14: whatever the order in which createTrackingRecord,
\* rewriteLinksForTracking, recordEmailOpen and recordLinkClick calls run, no
\* update is lost: every record's openCount is the number of opens that
\* succeeded for its token, every link's clickCount is the number of clicks
\* that succeeded for its token, and every registered record is in the store.
C14_NoUpdateIsLost ==
    /\ \A t \in registered : Cardinality(RecordsWith(trackingFile, t)) = 1
    /\ \A k \in 1..Len(trackingFile) :
          /\ trackingFile[k].openCount = CountOf(opens, trackingFile[k].trackingToken)
          /\ \A l \in 1..Len(trackingFile[k].links) :
                trackingFile[k].links[l].clickCount =
                    CountOf(clicks, trackingFile[k].links[l].clickToken)

\* Two records, one opened and a link of the other clicked.
C14_Witness ==
    \E a, b \in 1..Len(trackingFile) :
        /\ a # b
        /\ trackingFile[a].openCount >= 1
        /\ \E l \in 1..Len(trackingFile[b].links) : trackingFile[b].links[l].clickCount >= 1

\* What an open at time t by a client must make of a record: one more open,
\* lastOpenedAt the time of the call, firstOpenedAt set when it was unset,
\* the client's user agent and IP, everything else as it was.
Opened(before, after, t, client) ==
    /\ after.openCount = before.openCount + 1
    /\ after.lastOpenedAt = t
    /\ after.firstOpenedAt = (IF before.firstOpenedAt = NoNumber THEN t
                              ELSE before.firstOpenedAt)
    /\ after.userAgent = client.userAgent
    /\ after.ipAddress = client.ipAddress
    /\ after.id = before.id
    /\ after.trackingToken = before.trackingToken
    /\ after.recipientEmail = before.recipientEmail
    /\ after.subject = before.subject
    /\ after.campaignId = before.campaignId
    /\ after.links = before.links
    /\ after.createdAt = before.createdAt

\* The store after an open of the record at place k, and the answer true.
OpenTookEffect(k, client) ==
    /\ tret' = Returned("recordEmailOpen", trackingFile[k].trackingToken, [opened |-> TRUE])
    /\ Len(trackingFile') = Len(trackingFile)
    /\ Opened(trackingFile[k], trackingFile'[k], now, client)
    /\ \A j \in 1..Len(trackingFile) : j # k => trackingFile'[j] = trackingFile[j]

\* C15 as stated: recordEmailOpen on a token present in the store increments
\* that record's openCount by exactly 1, sets lastOpenedAt to the current
\* time and firstOpenedAt only when it was unset, stores the latest user
\* agent and IP, returns true, and leaves every other record unchanged.
C15_OpenOfKnownTokenAlwaysCounts ==
    [][\A t \in IssuedTrackingTokens, c \in Clients, io \in FileOutcomes :
          (/\ tret'.op = "recordEmailOpen" /\ tret'.token = t
           /\ RecordsWith(trackingFile, t) # {}
           /\ recordEmailOpen(t, c.userAgent, c.ipAddress, io.readOk, io.writeOk))
          => \E k \in RecordsWith(trackingFile, t) : OpenTookEffect(k, c)]_vars

\* C15 as amended: when the file can be read and written the open has the
\* stated effect, returns true and leaves every other record unchanged; when
\* reading or writing the file fails it returns false and changes nothing.
\* In both cases a firstOpenedAt that is set stays as it is.
C15_OpenOfKnownTokenCountsWhenFileWorks ==
    [][\A t \in IssuedTrackingTokens, c \in Clients, io \in FileOutcomes :
          (/\ tret'.op = "recordEmailOpen" /\ tret'.token = t
           /\ RecordsWith(trackingFile, t) # {}
           /\ recordEmailOpen(t, c.userAgent, c.ipAddress, io.readOk, io.writeOk))
          => /\ IF io.readOk /\ io.writeOk
                THEN \E k \in RecordsWith(trackingFile, t) : OpenTookEffect(k, c)
                ELSE /\ tret' = Returned("recordEmailOpen", t, [opened |-> FALSE])
                     /\ trackingFile' = trackingFile
             /\ \A k \in 1..Len(trackingFile) :
                   trackingFile[k].firstOpenedAt # NoNumber =>
                       trackingFile'[k].firstOpenedAt = trackingFile[k].firstOpenedAt]_vars

\* A record opened twice at different times, by different clients; the first
\* open is the one firstOpenedAt tells.
C15_Witness ==
    \E k \in 1..Len(trackingFile) :
        /\ trackingFile[k].openCount = 2
        /\ trackingFile[k].firstOpenedAt < trackingFile[k].lastOpenedAt
        /\ trackingFile[k].userAgent = "Mozilla"
        /\ Len(trackingFile) = 2
        /\ tret = Returned("recordEmailOpen", trackingFile[k].trackingToken, [opened |-> TRUE])

\* C16: recordEmailOpen on a token that is not in the store returns false,
\* does not raise, also when reading or writing the file fails, and leaves
\* the stored records unchanged.
C16_OpenOfUnknownTokenIsANoOp ==
    [][\A t \in IssuedTrackingTokens, c \in Clients, io \in FileOutcomes :
          (/\ tret'.op = "recordEmailOpen" /\ tret'.token = t
           /\ RecordsWith(trackingFile, t) = {}
           /\ recordEmailOpen(t, c.userAgent, c.ipAddress, io.readOk, io.writeOk))
          => /\ tret' = Returned("recordEmailOpen", t, [opened |-> FALSE])
             /\ trackingFile' = trackingFile]_vars

\* An open with a token no record has, on a store that has records.
C16_Witness ==
    /\ Len(trackingFile) >= 1
    /\ tret.op = "recordEmailOpen"
    /\ RecordsWith(trackingFile, tret.token) = {}
    /\ tret.value = [opened |-> FALSE]

\* The places <<record, link>> of the links with a click token.
LinksWith(file, token) ==
    {p \in UNION {{<<k, l>> : l \in 1..Len(file[k].links)} : k \in 1..Len(file)} :
        file[p[1]].links[p[2]].clickToken = token}

\* The store after a click of the link at place l of the record at place k,
\* and the answer, the link's originalUrl: that link has one more click,
\* lastClickedAt the time of the call and firstClickedAt set when it was
\* unset; nothing else differs.
ClickTookEffect(k, l) ==
    LET before == trackingFile[k].links[l]
        after == trackingFile'[k].links[l]
    IN /\ tret' = Returned("recordLinkClick", before.clickToken,
                           [originalUrl |-> before.originalUrl])
       /\ Len(trackingFile') = Len(trackingFile)
       /\ \A j \in 1..Len(trackingFile) : j # k => trackingFile'[j] = trackingFile[j]
       /\ trackingFile'[k] = [trackingFile[k] EXCEPT !.links = trackingFile'[k].links]
       /\ Len(trackingFile'[k].links) = Len(trackingFile[k].links)
       /\ \A m \in 1..Len(trackingFile[k].links) :
             m # l => trackingFile'[k].links[m] = trackingFile[k].links[m]
       /\ after.clickToken = before.clickToken
       /\ after.originalUrl = before.originalUrl
       /\ after.clickCount = before.clickCount + 1
       /\ after.lastClickedAt = now
       /\ after.firstClickedAt = (IF before.firstClickedAt = NoNumber THEN now
                                  ELSE before.firstClickedAt)

\* The answer null and the store as it was.
ClickChangedNothing(token) ==
    /\ tret' = Returned("recordLinkClick", token, [originalUrl |-> <<>>])
    /\ trackingFile' = trackingFile

\* C17 as stated: recordLinkClick with a click token that matches no link
\* returns null and leaves every record as it was; with a token that matches
\* a link it increments only that link's clickCount by 1, updates its click
\* timestamps (firstClickedAt only if unset) and returns its originalUrl.
C17_ClickOfKnownTokenAlwaysCounts ==
    [][\A t \in IssuedClickTokens, io \in FileOutcomes :
          (/\ tret'.op = "recordLinkClick" /\ tret'.token = t
           /\ recordLinkClick(t, io.readOk, io.writeOk))
          => IF LinksWith(trackingFile, t) = {}
             THEN ClickChangedNothing(t)
             ELSE \E p \in LinksWith(trackingFile, t) : ClickTookEffect(p[1], p[2])]_vars

\* C17 as amended: the same, when the file can be read and written; when
\* reading or writing the file fails the call returns null and changes
\* nothing, also for a token that matches a link.
C17_ClickOfKnownTokenCountsWhenFileWorks ==
    [][\A t \in IssuedClickTokens, io \in FileOutcomes :
          (/\ tret'.op = "recordLinkClick" /\ tret'.token = t
           /\ recordLinkClick(t, io.readOk, io.writeOk))
          => IF LinksWith(trackingFile, t) = {} \/ ~io.readOk \/ ~io.writeOk
             THEN ClickChangedNothing(t)
             ELSE \E p \in LinksWith(trackingFile, t) : ClickTookEffect(p[1], p[2])]_vars

\* A record with two links, the first clicked twice at different times, the
\* second never.
C17_Witness ==
    \E k \in 1..Len(trackingFile) :
        /\ Len(trackingFile[k].links) = 2
        /\ trackingFile[k].links[1].clickCount = 2
        /\ trackingFile[k].links[1].firstClickedAt < trackingFile[k].links[1].lastClickedAt
        /\ trackingFile[k].links[2].clickCount = 0
        /\ tret = Returned("recordLinkClick", trackingFile[k].links[1].clickToken,
                           [originalUrl |-> ExternalUrl1])

\* Every trackingToken and every clickToken of the store differs from all
\* the others.
TokensAreDistinct ==
    /\ \A a, b \in 1..Len(trackingFile) :
          a # b => trackingFile[a].trackingToken # trackingFile[b].trackingToken
    /\ \A a \in 1..Len(trackingFile) : \A l \in 1..Len(trackingFile[a].links) :
          /\ LinksWith(trackingFile, trackingFile[a].links[l].clickToken) = {<<a, l>>}
          /\ RecordsWith(trackingFile, trackingFile[a].links[l].clickToken) = {}

\* One step keeps every record of the store in its place and lowers no
\* openCount and no link's clickCount.
NothingRemovedOrLowered ==
    /\ Len(trackingFile') >= Len(trackingFile)
    /\ \A k \in 1..Len(trackingFile) :
          /\ trackingFile'[k].trackingToken = trackingFile[k].trackingToken
          /\ trackingFile'[k].openCount >= trackingFile[k].openCount
          /\ \A l \in 1..Len(trackingFile[k].links) :
                \A p \in LinksWith(trackingFile', trackingFile[k].links[l].clickToken) :
                    trackingFile'[p[1]].links[p[2]].clickCount
                        >= trackingFile[k].links[l].clickCount

IsTrackingUrl(url) == Len(url) >= 2 /\ url[1] = BaseUrl /\ url[2] = "/api/track/"

\* The targets C19 says are left alone.
LeftAlone(url) ==
    \/ StartsWith(url, "mailto:") \/ StartsWith(url, "tel:") \/ StartsWith(url, "#")
    \/ IsTrackingUrl(url)

\* The places of a body whose href C19 says is rewritten.
ToRewrite(body) == {k \in 1..Len(body) : body[k].attr = "href" /\ ~LeftAlone(body[k].url)}

\* C19: rewriteLinksForTracking leaves every href whose target starts with
\* mailto:, tel: or # and every target that is already a tracking URL as it
\* is, replaces the target of every other href with a tracking-redirect URL
\* carrying a click token of its own, and returns exactly one link mapping
\* per rewritten href.
C19_EveryOtherHrefIsRewrittenOnce ==
    (tret.op = "rewriteLinksForTracking" /\ ~tret.threw) =>
        LET in == tret.input
            out == tret.value.body
            links == tret.value.links
        IN /\ Len(out) = Len(in)
           /\ \A k \in 1..Len(in) : k \notin ToRewrite(in) => out[k] = in[k]
           /\ Len(links) = Cardinality(ToRewrite(in))
           /\ \A a, b \in 1..Len(links) : a # b => links[a].clickToken # links[b].clickToken
           /\ \A k \in ToRewrite(in) :
                 /\ out[k].attr = "href"
                 /\ Cardinality({m \in 1..Len(links) :
                                    /\ out[k].url = TrackingUrl(links[m].clickToken)
                                    /\ links[m].originalUrl = in[k].url}) = 1


\* The records a statistics request for a campaign is about.
StatRecordsOf(file, campaignId) ==
    {k \in 1..Len(file) : campaignId = NoString \/ file[k].campaignId = campaignId}

\* The links of a set of records, as <<record, link>> places.
StatLinksOf(file, of) ==
    {at \in of \X (1..MaxPieces) : at[2] <= Len(file[at[1]].links)}

\* round(100 * opened / sent) with a half going up, in exact arithmetic.
RoundedPercent(opened, sent) == (200 * opened + sent) \div (2 * sent)

\* C20: getTrackingStats returns totalSent = the number of records (of the
\* campaign, if one is given), totalOpened = the number of those with
\* openCount > 0, openRate = round(100 * totalOpened / totalSent) and 0 when
\* totalSent is 0, totalClicks = the sum of clickCount over their links,
\* uniqueClicks = the number of their links with clickCount > 0; so openRate
\* is within 0..100 and uniqueClicks <= totalClicks.  (Stated for a request
\* whose read of the file succeeds.)
C20_StatsAreTheStatedCounts ==
    [][\A campaignId \in StatCampaigns :
          (tret'.op = "getTrackingStats" /\ tret'.token = campaignId
           /\ getTrackingStats(campaignId, TRUE))
          => LET of == StatRecordsOf(trackingFile, campaignId)
                 links == StatLinksOf(trackingFile, of)
                 stats == tret'.value
                 sent == Cardinality(of)
                 opened == Cardinality({k \in of : trackingFile[k].openCount > 0})
             IN /\ stats.totalSent = sent
                /\ stats.totalOpened = opened
                /\ stats.openRate = IF sent = 0 THEN 0 ELSE RoundedPercent(opened, sent)
                /\ stats.totalClicks = SumEvents(trackingFile)
                                       - SumEvents([k \in 1..Len(trackingFile) |->
                                             IF k \in of
                                             THEN [trackingFile[k] EXCEPT !.links = <<>>]
                                             ELSE trackingFile[k]])
                /\ stats.uniqueClicks =
                      Cardinality({at \in links :
                                      trackingFile[at[1]].links[at[2]].clickCount > 0})
                /\ stats.openRate \in 0..100
                /\ stats.uniqueClicks <= stats.totalClicks]_vars


MayBeRetried(outcome) ==
    \/ outcome.name = "Response" /\ outcome.status \in {408, 429, 500, 502, 503, 504}
    \/ outcome.name = "AbortError"
    \/ outcome.name = "TypeError"

\* The attempts of the current request that were followed by a retry.
RetriedAttempts == 1..Len(apiClient.delays)

\* C22: ApiClient.request retries only after a retryable status (408, 429,
\* 500, 502, 503, 504), a timeout or a network error, makes at most 3
\* retries (4 attempts) with waits of 1 s, 2 s and 4 s before them, and makes
\* exactly one attempt with skipRetry, which sendCampaign sets.
C22_RetriesOnlyWhatIsRetryable ==
    /\ Len(apiClient.fetches) <= 4
    /\ Len(apiClient.delays) <= 3
    /\ apiClient.delays = SubSeq(<<1000, 2000, 4000>>, 1, Len(apiClient.delays))
    /\ \A k \in RetriedAttempts : MayBeRetried(apiClient.fetches[k].outcome)
    /\ apiClient.skipRetry => Len(apiClient.fetches) <= 1 /\ apiClient.delays = <<>>
    /\ apiClient.endpoint = "/campaigns/send" => apiClient.skipRetry


\* C23: when a request of the ApiClient is answered with 401, the client
\* refreshes the access token with the stored refresh token and the request
\* is then carried out with the new token: a request that has ended had
\* every 401 followed by a fetch under another token, the client's new one.
C23_UnauthorizedIsRefreshedAndRepeated ==
    apiClient.pc = "done" =>
        \A k \in 1..Len(apiClient.fetches) :
            apiClient.fetches[k].outcome.status = 401 =>
                \E j \in (k + 1)..Len(apiClient.fetches) :
                    /\ apiClient.fetches[j].authorization # apiClient.fetches[k].authorization
                    /\ apiClient.fetches[j].authorization = apiClient.token


\* C24: after 5 consecutive failed login attempts for an account, further
\* login attempts for it are rejected for 30 minutes, with the correct
\* password too: no login within 30 minutes of the fifth of five failures
\* in a row is answered 200.
C24_LockedOutAfterFiveFailures ==
    \A m \in 5..Len(auth.log), j \in 1..Len(auth.log) :
        (/\ j > m
         /\ \A k \in (m - 4)..m : auth.log[k].status # 200
         /\ auth.log[j].at < auth.log[m].at + 30 * 60 * 1000)
        => auth.log[j].status # 200


\* The code unit at place k of a text is no surrogate, or it is one half of
\* a surrogate pair.
Paired(text, k) ==
    /\ IsHighSurrogate(text[k]) => k < Len(text) /\ IsLowSurrogate(text[k + 1])
    /\ IsLowSurrogate(text[k]) => k > 1 /\ IsHighSurrogate(text[k - 1])

\* A string without a surrogate code unit that lacks its partner.
WellFormed(text) == \A k \in 1..Len(text) : Paired(text, k)

\* C25 as stated: decrypt(encrypt(x)) = x for every string x, the empty
\* one and those with ':' included, and decrypt of a text without the
\* separator throws.
C25_RoundTripOfEveryString ==
    crypto.pc = "decrypted" =>
        /\ crypto.input = crypto.encrypted
              => ~crypto.threw /\ crypto.decrypted = crypto.plain
        /\ (\A k \in 1..Len(crypto.input) : crypto.input[k] # ":") => crypto.threw

\* C25 as amended: decrypt(encrypt(x)) = x for every well-formed string x
\* (no surrogate code unit without its partner); a lone surrogate comes back
\* as U+FFFD; decrypt of a text without the separator throws.
C25_RoundTripOfWellFormedStrings ==
    crypto.pc = "decrypted" =>
        /\ crypto.input = crypto.encrypted
              => /\ ~crypto.threw
                 /\ WellFormed(crypto.plain) => crypto.decrypted = crypto.plain
                 /\ crypto.decrypted =
                       [k \in 1..Len(crypto.plain) |->
                           IF Paired(crypto.plain, k) THEN crypto.plain[k] ELSE 65533]
        /\ (\A k \in 1..Len(crypto.input) : crypto.input[k] # ":") => crypto.threw

\* A text with a ':' and a two-byte character came back from decrypt as it
\* was.
C25_Witness ==
    /\ crypto.pc = "decrypted"
    /\ crypto.input = crypto.encrypted
    /\ crypto.plain = <<58, 233>>
    /\ crypto.decrypted = crypto.plain


\* The status the claim gives to a failure: 401 for an authentication
\* failure (code EAUTH or an 'Invalid login' message), 503 for a socket or
\* connection failure, 500 for anything else.
ClaimedStatus(error) ==
    IF error.code = "EAUTH" \/ Includes(error.message, "Invalid login") THEN 401
    ELSE IF error.code \in {"ESOCKET", "ECONNECTION"} THEN 503
    ELSE 500

\* What the claim says of a sendEmail call that ends because of `error`: an
\* AppError of the claimed status is thrown to the caller, and when that is
\* 401 the sender has no cached transporter afterwards.
SurfacedAsClaimed(c, error) ==
    /\ cret'[c] # Ok
    /\ cret'[c].isAppError
    /\ cret'[c].statusCode = ClaimedStatus(error)
    /\ cret'[c].statusCode = 401 => CacheGet(transporterCache', cfg[c]) = None

\* C26: every failure of EmailService.sendEmail reaches the caller as a
\* classified error: an authentication failure (EAUTH or 'Invalid login') as
\* 401, a socket/connection failure (ESOCKET, ECONNECTION) as 503, anything
\* else as 500, and after a 401 the sender has no cached transporter.
C26_EveryFailureIsClassified ==
    [][\A error \in MailErrors :
          /\ (cpc[RunCaller] = "verify" /\ CallVerifySettled(RunCaller, error))
                => SurfacedAsClaimed(RunCaller, error)
          /\ (cpc[RunCaller] = "sendMail" /\ CallSendMailSettled(RunCaller, error))
                => SurfacedAsClaimed(RunCaller, error)]_vars


\* C27: a verification or a send that never completes does not block the
\* run forever: the recipient whose sendEmail is awaited is eventually
\* recorded in results, whatever the mail server does.
C27_PendingSendIsEventuallyRecorded ==
    \A k \in 0..(MaxRecipients - 1) :
        (pc = "sending" /\ i = k) ~> (Len(results) > k)


\* recordLinkClick on a click token finds a link in the file, and the link
\* has this original URL.
Resolvable(file, clickToken, originalUrl) ==
    LET at == FindLink(file, clickToken)
    IN at # None /\ file[at.record].links[at.link].originalUrl = originalUrl

\* C28: every click token rewriteLinksForTracking embeds in the body it
\* returns is resolvable in every later state of the store: the links the
\* last rewrite returned are in the store with their original URLs (also
\* when its trackingToken was not, or not readably, in the store), and no
\* step takes a stored link away (also not a second rewrite for the same
\* trackingToken).
C28_EmbeddedClickTokensStayResolvable ==
    /\ [](tret.op = "rewriteLinksForTracking" /\ ~tret.threw
            => \A l \in 1..Len(tret.value.links) :
                  Resolvable(trackingFile, tret.value.links[l].clickToken,
                             tret.value.links[l].originalUrl))
    /\ [][\A p \in UNION {{<<k, l>> : l \in 1..Len(trackingFile[k].links)} :
                             k \in 1..Len(trackingFile)} :
             Resolvable(trackingFile', trackingFile[p[1]].links[p[2]].clickToken,
                        trackingFile[p[1]].links[p[2]].originalUrl)]_vars


\* The value a data map gives for a fragment of the template, or the fragment
\* itself when no key of the map is its placeholder.
SubstitutedOnce(f, data) ==
    LET hits == {n \in 1..Len(data) : ToLowerCase(data[n].key) = ToLowerCase(f)}
    IN IF hits = {} THEN f ELSE data[CHOOSE n \in hits : TRUE].value

\* The same entries in every order.
Reorderings(data) ==
    {[k \in 1..Len(data) |-> data[o[k]]] :
        o \in {f \in [1..Len(data) -> 1..Len(data)] :
                 \A a, b \in 1..Len(data) : a # b => f[a] # f[b]}}

\* C29: personalizeContent is one simultaneous substitution: every fragment
\* of the template that is a placeholder of the data map becomes that
\* field's value verbatim (a value that is itself placeholder text is not
\* expanded further), everything else is kept, and the result is the same for
\* every order of the keys of the data map.
C29_SimultaneousSubstitution ==
    rendered # None =>
        /\ rendered.text = [k \in 1..Len(tmpl) |->
                               SubstitutedOnce(tmpl[k], PersonalizationData(rcpt))]
        /\ \A data \in Reorderings(PersonalizationData(rcpt)) :
              personalizeContent(tmpl, data) = rendered.text


\* C30: after any sequence and any interleaving of createCredential and
\* deleteCredential calls for one user, once no call is in progress, the
\* user has at most one credential with isDefault set and at most one
\* credential per email address.
C30_OneDefaultAndOneRowPerEmail ==
    (\A c \in CredCallers : credSvc.calls[c].pc \in {"idle", "done"}) =>
        /\ Cardinality({row \in credentials : row.isDefault}) <= 1
        /\ \A a, b \in credentials : a.email = b.email => a = b

====
